---- MODULE Spec2Model ----
(***************************************************************************)
(* SwiftGuard: the bounded correction loop (evaluator_optimizer.py), the   *)
(* fraud aggregator (base_agents.py) and the concurrent fan-out            *)
(* (parallelization.py), as state machines.                                *)
(*                                                                         *)
(* Strings are tuples of one-character strings, so that split(), slicing   *)
(* and substring search are computed and not assumed.  Risk scores are     *)
(* exact decimals counted in thousandths (0.3 is 300); the binary rounding *)
(* error of IEEE doubles is outside the model.                             *)
(***************************************************************************)
EXTENDS Integers, Sequences, FiniteSets, TLC

VARIABLES
    stage,              \* which step of SWIFTProcessingSystem.run is executing
    messages,           \* the batch: a tuple of message mappings
    optimized_messages, \* the list process_with_evaluator_optimizer builds
    pc,                 \* position inside process_with_evaluator_optimizer
    i,                  \* index of the message the loop is working on
    iteration,          \* the loop variable of range(MAX_ITERATIONS)
    errors,             \* the error list the last evaluation returned
    eval_calls,         \* history: evaluation calls made, per message
    corr_calls,         \* history: correction calls made, per message
    eval_log,           \* history: per message, the verdict of each evaluation
    last_errors,        \* history: per message, the errors of its last evaluation
    last_corr,          \* history: how the correction call of this iteration ended
    clean_messages,     \* the list process_with_orchestrator_worker hands on first
    fraud_results,      \* the argument of FraudAggAgent.aggregate_results
    aggregated,         \* what aggregate_results returned
    agg_pc,             \* position of the caller of aggregate_results
    max_workers,        \* ParallelizationPattern.max_workers
    task,               \* per scoring task: none, queued, running or done
    task_result,        \* per scoring task: what _process_message returned
    future_to_msg,      \* the dict of process_batch_parallel, in insertion order
    par_pc,             \* position inside process_batch_parallel
    cm,                 \* index of the message (entry) the method works on
    ca,                 \* index of the agent (future) the method works on
    agent_results,      \* the results collected for the current message
    processed_messages, \* the list process_batch_parallel builds
    timed_out,          \* history: the tasks whose wait ended by the timeout
    speed,              \* history: per started task, whether it is fast or slow
    \* a call of _validate_bic
    bic,                \* the argument
    bic_valid,          \* the value returned
    bic_pc,             \* "idle", "call", "done"
    \* a call of a scoring agent
    an_message,         \* the message the agent is given
    an_agent,           \* the agent called: 1..NumAgents, 0 before the call
    an_outcome,         \* whether the call raised, and the record returned
    an_pc,              \* "idle", "call", "analyzed", "processed", "scored"
    \* a call of PromptChainingPattern.process_chain
    chain_pc,           \* "idle", "stage", "update", "returned", "raised"
    chain_stage,        \* the number of the stage to run next, 1..5
    chain_results,      \* the dict chain_results, in insertion order
    chain_safe,         \* the local list _make_json_safe(messages) built
    chain_log,          \* history: per model call, the stage and what it was given
    \* a call of OrchestratorWorkerPattern.process_with_orchestrator
    orch_pc,            \* "idle", "analyze", "execute", "returned"
    orch_response,      \* what analyze_and_create_tasks returned
    orch_tasks,         \* the list tasks of process_with_orchestrator
    orch_k,             \* the index of the task the for loop is at
    orch_results,       \* the list results
    orch_log            \* history: per task executed, whether its model call failed

loop_vars == <<stage, messages, optimized_messages, pc, i, iteration, errors,
               eval_calls, corr_calls, eval_log, last_errors, last_corr,
               clean_messages>>

loop_less_messages == <<stage, optimized_messages, pc, i, iteration, errors,
                        eval_calls, corr_calls, eval_log, last_errors,
                        last_corr, clean_messages>>

agg_vars == <<fraud_results, aggregated, agg_pc>>

par_vars == <<max_workers, task, task_result, future_to_msg, par_pc, cm, ca,
              agent_results, processed_messages, timed_out, speed>>

chain_vars == <<chain_pc, chain_stage, chain_results, chain_safe, chain_log>>

orch_vars == <<orch_pc, orch_response, orch_tasks, orch_k, orch_results,
               orch_log>>

unit_vars == <<bic, bic_valid, bic_pc, an_message, an_agent, an_outcome, an_pc,
               chain_vars, orch_vars>>

vars == <<loop_vars, agg_vars, par_vars, unit_vars>>

----------------------------------------------------------------------------
(* Bounds and program constants *)

MaxMsgs == 2

MAX_ITERATIONS == 3

----------------------------------------------------------------------------
(* Strings *)

Letters == {"A", "B", "C", "D", "E", "F", "G", "H", "I", "K", "M", "N", "O",
            "P", "R", "S", "T", "U", "X", "Y"}

Digits == {"0", "1", "2", "3", "4", "5", "6", "7", "8", "9"}

\* str.split() with no argument: the maximal runs of non-blank characters.
RECURSIVE SplitFrom(_, _, _)
SplitFrom(s, k, cur) ==
    IF k > Len(s)
    THEN IF cur = <<>> THEN <<>> ELSE <<cur>>
    ELSE IF s[k] = " "
         THEN IF cur = <<>>
              THEN SplitFrom(s, k + 1, <<>>)
              ELSE <<cur>> \o SplitFrom(s, k + 1, <<>>)
         ELSE SplitFrom(s, k + 1, Append(cur, s[k]))

split(s) == SplitFrom(s, 1, <<>>)

A15000 == <<"1", "5", "0", "0", "0", ".", "0", "0">>
A250 == <<"2", "5", "0", ".", "0", "0">>
USD == <<"U", "S", "D">>
EUR == <<"E", "U", "R">>
A15000USD == A15000 \o <<" ">> \o USD
A250EUR == A250 \o <<" ">> \o EUR

----------------------------------------------------------------------------
(* Messages: a Python dict is the set of its keys and a value per key.     *)
(* amount_is_str tells a string amount from a number.                      *)

MessageIds == <<"M1", "M2", "M3", "M4">>

\* The amounts a generated message may carry (spec section 3): a decimal
\* with a currency, or a bare decimal.
InputAmounts == {A15000, A15000USD}

\* The BICs of the sample message of test_pattern.
CHASUS33XXX == <<"C", "H", "A", "S", "U", "S", "3", "3", "X", "X", "X">>
DEUTDEFFXXX == <<"D", "E", "U", "T", "D", "E", "F", "F", "X", "X", "X">>

\* None, where a string is expected.
NoneValue == <<"None">>

Message(id, amt, sender, receiver, remittance) ==
    [keys |-> {"message_id", "amount", "sender_bic", "receiver_bic",
               "remittance_info"},
     message_id |-> id,
     amount |-> amt,
     amount_is_str |-> TRUE,
     sender_bic |-> sender,
     receiver_bic |-> receiver,
     remittance_info |-> remittance,
     currency |-> <<>>,
     validation_status |-> "",
     validation_errors |-> <<>>,
     fraud_analysis |-> <<>>,
     fraud_status |-> "",
     fraud_score |-> 0,
     fraud_reasons |-> <<>>,
     fraud_decision |-> "",
     fraud_confidence |-> 0,
     fraud_justification |-> ""]

NewMessage(id, amt) == Message(id, amt, CHASUS33XXX, DEUTDEFFXXX, <<>>)

\* A status write that ignores the status it is given.
SetStatus_always_valid(m, status, errs) ==
    [m EXCEPT !.keys = @ \cup {"validation_status", "validation_errors"},
              !.validation_status = "VALID",
              !.validation_errors = errs]

\* A status write that also marks the message CLEAN.
SetStatus_marks_clean(m, status, errs) ==
    [m EXCEPT !.keys = @ \cup {"validation_status", "validation_errors",
                               "fraud_status"},
              !.validation_status = status,
              !.validation_errors = errs,
              !.fraud_status = "CLEAN"]

\* dict[key] = value
SetStatus(m, status, errs) ==
    [m EXCEPT !.keys = @ \cup {"validation_status", "validation_errors"},
              !.validation_status = status,
              !.validation_errors = errs]

\* An update that replaces the message by the other mapping.
update_replaces(m, other) ==
    [f \in DOMAIN m |-> IF f = "keys" THEN other.keys ELSE other[f]]

\* dict.update(other): the keys of other overwrite, the other keys stay.
\* The field amount_is_str travels with the key amount.
KeyOf(field) == IF field = "amount_is_str" THEN "amount" ELSE field

update(m, other) ==
    [f \in DOMAIN m |->
        IF f = "keys" THEN m.keys \cup other.keys
        ELSE IF KeyOf(f) \in other.keys THEN other[f] ELSE m[f]]

----------------------------------------------------------------------------
(* The evaluation oracle: what EvaluatorAgent.evaluate returns or raises.  *)

ErrorsA == <<"invalid sender_bic">>
ErrorsB == <<"invalid sender_bic", "missing currency">>

EvalResult(raises, verdict, valid, has_errors, errs) ==
    [raises |-> raises, has_is_valid |-> verdict, is_valid |-> valid,
     has_errors |-> has_errors, errors |-> errs]

EvalResults ==
    {EvalResult(TRUE, FALSE, FALSE, FALSE, <<>>),     \* the call raises
     EvalResult(FALSE, FALSE, FALSE, TRUE, ErrorsA),  \* no "is_valid" key
     EvalResult(FALSE, TRUE, TRUE, FALSE, <<>>),      \* valid, no "errors" key
     EvalResult(FALSE, TRUE, TRUE, TRUE, ErrorsA),    \* valid, yet errors listed
     EvalResult(FALSE, TRUE, FALSE, FALSE, <<>>),     \* invalid, no "errors" key
     EvalResult(FALSE, TRUE, FALSE, TRUE, ErrorsA),
     EvalResult(FALSE, TRUE, FALSE, TRUE, ErrorsB)}

\* evaluate_message: result["is_valid"], result.get("errors", []).  A raising
\* call and a missing "is_valid" key both leave by an exception.
evaluate_message(result) ==
    IF result.raises \/ ~result.has_is_valid
    THEN [raised |-> TRUE, is_valid |-> FALSE, errors |-> <<>>]
    ELSE [raised |-> FALSE, is_valid |-> result.is_valid,
          errors |-> IF result.has_errors THEN result.errors ELSE <<>>]

----------------------------------------------------------------------------
(* The correction oracle: what llm_service.get_swift_correction returns or *)
(* raises inside SwiftCorrectionAgent.respond.                             *)

Mapping(ks, amt, is_str, cur) ==
    [NewMessage("", amt) EXCEPT !.keys = ks, !.amount_is_str = is_str,
                                !.currency = cur]

EmptyMapping == Mapping({}, <<>>, TRUE, <<>>)

CorrResult(kind, value) == [kind |-> kind, value |-> value]

CorrResults ==
    {CorrResult("raise", EmptyMapping),
     CorrResult("not_dict", EmptyMapping),
     CorrResult("dict", EmptyMapping),
     CorrResult("dict", Mapping({"amount"}, A250, TRUE, <<>>)),
     CorrResult("dict", Mapping({"amount", "currency"}, A250EUR, TRUE, EUR)),
     CorrResult("dict", Mapping({"amount"}, A250, FALSE, <<>>))}

\* SwiftCorrectionAgent.respond: the oracle's value, or the message itself
\* when the call raised.
respond(message, result) ==
    IF result.kind = "raise"
    THEN CorrResult("dict", message)
    ELSE result

\* A repair that appends USD to every string amount, whatever its tokens.
repair_amount_any_string(message) ==
    IF "amount" \in message.keys /\ message.amount_is_str
    THEN [message EXCEPT !.amount = @ \o <<" ">> \o USD]
    ELSE message

\* The local repair of optimize_message: a one-token string amount gets USD.
repair_amount(message) ==
    IF "amount" \in message.keys /\ message.amount_is_str
    THEN LET parts == split(message.amount)
         IN  IF Len(parts) = 1
             THEN [message EXCEPT !.amount = parts[1] \o <<" ">> \o USD]
             ELSE message
    ELSE message

\* The variant of optimize_message with the repair inside the try block: no
\* repair when the oracle call failed.
optimize_message_repair_in_try(message, result) ==
    LET corrected_message == respond(message, result)
    IN  IF result.kind = "raise"
        THEN message
        ELSE repair_amount(IF corrected_message.kind = "dict"
                           THEN update(message, corrected_message.value)
                           ELSE message)

optimize_message(message, result) ==
    LET corrected_message == respond(message, result)
        merged == IF corrected_message.kind = "dict"
                  THEN update(message, corrected_message.value)
                  ELSE message
    IN  repair_amount(merged)

----------------------------------------------------------------------------
(* Control of the loop: for iteration in range(MAX_ITERATIONS).            *)

\* A range one too long.
more_iterations_off_by_one(it) == it + 1 <= MAX_ITERATIONS

\* Whether range(MAX_ITERATIONS) has a value after it.
more_iterations(it) == it + 1 < MAX_ITERATIONS

\* The test of line 165 with the wrong bound: a correction on every pass.
may_optimize_always(it) == it < MAX_ITERATIONS

\* if iteration < self.MAX_ITERATIONS - 1
may_optimize(it) == it < MAX_ITERATIONS - 1

\* Where the loop goes when its body ends without break.
next_iteration(it) ==
    IF more_iterations(it)
    THEN [pc |-> "evaluate", iteration |-> it + 1]
    ELSE [pc |-> "append", iteration |-> it]

\* The valid branch without its break.
after_valid_no_break(it) == next_iteration(it)

\* The valid branch ends in break: the loop is left at once.
after_valid(it) == [pc |-> "append", iteration |-> it]

----------------------------------------------------------------------------
(* SWIFTProcessingSystem.run: the correction loop step by step, then the   *)
(* stages after it.                                                         *)

\* No call of aggregate_results is in progress.
AggIdle ==
    /\ fraud_results = <<>>
    /\ aggregated = [is_fraudulent |-> FALSE, confidence |-> 0,
                     total_risk_score |-> 0, aggregated_reasons |-> <<>>]
    /\ agg_pc = "idle"

\* process_batch_parallel is not running.
ParIdle ==
    /\ max_workers = 0
    /\ task = <<>>
    /\ task_result = <<>>
    /\ future_to_msg = <<>>
    /\ par_pc = "idle"
    /\ cm = 1
    /\ ca = 1
    /\ agent_results = <<>>
    /\ processed_messages = <<>>
    /\ timed_out = {}
    /\ speed = <<>>

\* process_chain is not running.
ChainIdle ==
    /\ chain_pc = "idle"
    /\ chain_stage = 1
    /\ chain_results = <<>>
    /\ chain_safe = <<>>
    /\ chain_log = <<>>

\* process_with_orchestrator is not running.
OrchIdle ==
    /\ orch_pc = "idle"
    /\ orch_response = <<>>
    /\ orch_tasks = <<>>
    /\ orch_k = 1
    /\ orch_results = <<>>
    /\ orch_log = <<>>

\* No call of _validate_bic or of a scoring agent is in progress.
CallsIdle ==
    /\ bic = <<>>
    /\ bic_valid = FALSE
    /\ bic_pc = "idle"
    /\ an_message = <<>>
    /\ an_agent = 0
    /\ an_outcome = <<>>
    /\ an_pc = "idle"

UnitIdle ==
    /\ CallsIdle
    /\ ChainIdle
    /\ OrchIdle

Init ==
    /\ AggIdle
    /\ ParIdle
    /\ UnitIdle
    /\ stage = "evaluator_optimizer"
    /\ \E n \in 1..MaxMsgs :
          \E amts \in [1..n -> InputAmounts] :
             messages = [k \in 1..n |-> NewMessage(MessageIds[k], amts[k])]
    /\ optimized_messages = <<>>
    /\ pc = "evaluate"
    /\ i = 1
    /\ iteration = 0
    /\ errors = <<>>
    /\ eval_calls = [k \in DOMAIN messages |-> 0]
    /\ corr_calls = [k \in DOMAIN messages |-> 0]
    /\ eval_log = [k \in DOMAIN messages |-> <<>>]
    /\ last_errors = [k \in DOMAIN messages |-> <<>>]
    /\ last_corr = "none"
    /\ clean_messages = <<>>

\* One pass of the loop body up to the correction call (lines 153-173): the
\* evaluation, and the branch taken on its verdict.
Evaluate(result) ==
    LET r == evaluate_message(result)
        verdict == IF r.raised THEN "failed"
                   ELSE IF r.is_valid THEN "valid" ELSE "invalid"
    IN  /\ stage = "evaluator_optimizer"
        /\ pc = "evaluate"
        /\ eval_calls' = [eval_calls EXCEPT ![i] = @ + 1]
        /\ eval_log' = [eval_log EXCEPT ![i] = Append(@, verdict)]
        /\ last_corr' = "none"
        /\ IF r.raised
           THEN \* nothing catches it: it leaves process_with_evaluator_optimizer
                /\ pc' = "raised"
                /\ UNCHANGED <<messages, errors, last_errors>>
           ELSE /\ errors' = r.errors
                /\ last_errors' = [last_errors EXCEPT ![i] = r.errors]
                /\ IF r.is_valid
                   THEN /\ messages' = [messages EXCEPT
                                           ![i] = SetStatus(@, "VALID", <<>>)]
                        /\ pc' = after_valid(iteration).pc
                        /\ iteration' = after_valid(iteration).iteration
                   ELSE IF may_optimize(iteration)
                        THEN /\ pc' = "optimize"
                             /\ UNCHANGED <<messages, iteration>>
                        ELSE /\ messages' = [messages EXCEPT
                                           ![i] = SetStatus(@, "INVALID", r.errors)]
                             /\ pc' = next_iteration(iteration).pc
                             /\ iteration' = next_iteration(iteration).iteration
        /\ IF r.raised THEN UNCHANGED iteration ELSE TRUE
        /\ UNCHANGED <<stage, optimized_messages, i, corr_calls, clean_messages,
                       agg_vars, par_vars, unit_vars>>

\* message = self.optimize_message(message, errors), then the next iteration.
Optimize(result) ==
    /\ stage = "evaluator_optimizer"
    /\ pc = "optimize"
    /\ messages' = [messages EXCEPT ![i] = optimize_message(@, result)]
    /\ corr_calls' = [corr_calls EXCEPT ![i] = @ + 1]
    /\ last_corr' = result.kind
    /\ pc' = next_iteration(iteration).pc
    /\ iteration' = next_iteration(iteration).iteration
    /\ UNCHANGED <<stage, optimized_messages, i, errors, eval_calls, eval_log,
                   last_errors, clean_messages, agg_vars, par_vars, unit_vars>>

\* optimized_messages.append(message): the list holds the message object
\* itself (its index in messages), not a copy.  After the last message the
\* method returns the list.
AppendMessage ==
    /\ stage = "evaluator_optimizer"
    /\ pc = "append"
    /\ optimized_messages' = Append(optimized_messages, i)
    /\ last_corr' = "none"
    /\ IF i < Len(messages)
       THEN /\ i' = i + 1
            /\ iteration' = 0
            /\ pc' = "evaluate"
       ELSE /\ pc' = "returned"
            /\ UNCHANGED <<i, iteration>>
    /\ UNCHANGED <<stage, messages, errors, eval_calls, corr_calls, eval_log,
                   last_errors, clean_messages, agg_vars, par_vars, unit_vars>>

\* Step 2 of run: process_batch_parallel writes a fraud verdict on every
\* message it was handed.  Which verdict is the fan-out's business (SpecPar).
process_with_parallelization ==
    /\ stage = "evaluator_optimizer"
    /\ pc = "returned"
    /\ stage' = "parallelization"
    /\ \E verdicts \in [DOMAIN messages -> {"CLEAN", "FRAUDULENT"}] :
          messages' = [k \in DOMAIN messages |->
                         [messages[k] EXCEPT !.keys = @ \cup {"fraud_status"},
                                             !.fraud_status = verdicts[k]]]
    /\ UNCHANGED <<optimized_messages, pc, i, iteration, errors, eval_calls,
                   corr_calls, eval_log, last_errors, last_corr, clean_messages,
                   agg_vars, par_vars, unit_vars>>

\* Step 3 of run.
process_with_prompt_chaining ==
    /\ stage = "parallelization"
    /\ stage' = "prompt_chaining"
    /\ UNCHANGED <<messages, optimized_messages, pc, i, iteration, errors,
                   eval_calls, corr_calls, eval_log, last_errors, last_corr,
                   clean_messages, agg_vars, par_vars, unit_vars>>

\* msg.get('fraud_status') == "FRAUDULENT": the filter of the line left as a
\* comment above the method.
keep_fraudulent_only(msg) ==
    "fraud_status" \in msg.keys /\ msg.fraud_status = "FRAUDULENT"

\* msg.get('fraud_status') != "FRAUDULENT": a message without the key passes.
keep(msg) ==
    ~("fraud_status" \in msg.keys /\ msg.fraud_status = "FRAUDULENT")

KeepIndex(k) == keep(messages[k])

\* Step 4 of run.  It is handed the list process_batch_parallel returned:
\* the messages of optimized_messages, in that order.  clean_messages is
\* what the first call of process_with_orchestrator receives.
process_with_orchestrator_worker ==
    /\ stage = "prompt_chaining"
    /\ stage' = "orchestrator_worker"
    /\ clean_messages' = SelectSeq(optimized_messages, KeepIndex)
    /\ UNCHANGED <<messages, optimized_messages, pc, i, iteration, errors,
                   eval_calls, corr_calls, eval_log, last_errors, last_corr,
                   agg_vars, par_vars, unit_vars>>

Next ==
    \/ \E result \in EvalResults : Evaluate(result)
    \/ \E result \in CorrResults : Optimize(result)
    \/ AppendMessage
    \/ process_with_parallelization
    \/ process_with_prompt_chaining
    \/ process_with_orchestrator_worker

Spec == Init /\ [][Next]_vars

----------------------------------------------------------------------------
(* Properties of the correction loop, checked under Spec.                  *)

Range(seq) == {seq[j] : j \in DOMAIN seq}

IsCurrencyToken(tok) == Len(tok) = 3 /\ \A j \in 1..3 : tok[j] \in Letters

\* The amount is a string with a currency token among its tokens.
HasCurrencyToken(m) ==
    /\ "amount" \in m.keys
    /\ m.amount_is_str
    /\ \E tok \in Range(split(m.amount)) : IsCurrencyToken(tok)

\* A string of one token: not empty, no blank in it.
IsBare(s) == Len(s) > 0 /\ \A j \in DOMAIN s : s[j] # " "

\* C1: a message is evaluated at most 3 times, and a message whose first
\* evaluation returned valid was evaluated exactly once and never corrected.
C1_EvalBudget ==
    \A k \in DOMAIN messages :
        /\ eval_calls[k] <= 3
        /\ (eval_log[k] # <<>> /\ eval_log[k][1] = "valid")
              => (eval_calls[k] = 1 /\ corr_calls[k] = 0)

\* C1 witness: the run is over, one message used all 3 evaluations and
\* another was valid on its first.
C1_Witness ==
    /\ pc = "returned"
    /\ \E k \in DOMAIN messages : eval_calls[k] = 3
    /\ \E k \in DOMAIN messages :
          eval_log[k] = <<"valid">> /\ corr_calls[k] = 0

\* C2: once the first 3 evaluations of a message have all returned invalid,
\* the message is INVALID with the error list of the third evaluation, and
\* in every later state (the rest of the loop, the later stages of run) it
\* still has had exactly 3 evaluation calls and 2 correction calls.
C2_ExhaustedIsInvalid ==
    \A k \in DOMAIN messages :
        (Len(eval_log[k]) >= 3
            /\ \A j \in 1..3 : eval_log[k][j] = "invalid")
        => /\ messages[k].validation_status = "INVALID"
           /\ "validation_status" \in messages[k].keys
           /\ messages[k].validation_errors = last_errors[k]
           /\ eval_calls[k] = 3
           /\ Len(eval_log[k]) = 3
           /\ corr_calls[k] = 2

\* C2 witness: run has gone through its last stage with a message that was
\* invalid 3 times and carries the errors of the third evaluation.
C2_Witness ==
    /\ stage = "orchestrator_worker"
    /\ \E k \in DOMAIN messages :
          /\ eval_log[k] = <<"invalid", "invalid", "invalid">>
          /\ messages[k].validation_errors = ErrorsB

\* C3: a valid verdict is always the last evaluation of its message: the
\* message is VALID with no errors, and no evaluation or correction call
\* follows it, in the loop or later.
C3_ValidStops ==
    \A k \in DOMAIN messages :
        \A j \in DOMAIN eval_log[k] :
            eval_log[k][j] = "valid"
            => /\ j = Len(eval_log[k])
               /\ eval_calls[k] = j
               /\ corr_calls[k] = j - 1
               /\ messages[k].validation_status = "VALID"
               /\ messages[k].validation_errors = <<>>
               /\ {"validation_status", "validation_errors"} \subseteq messages[k].keys

\* C3 witness: run is over and a message became valid on its second
\* evaluation, whose result listed errors all the same.
C3_Witness ==
    /\ stage = "orchestrator_worker"
    /\ \E k \in DOMAIN messages :
          /\ eval_log[k] = <<"invalid", "valid">>
          /\ last_errors[k] = ErrorsA
          /\ messages[k].validation_status = "VALID"

\* C4: when process_with_evaluator_optimizer has returned, the amount of
\* every message carries a currency token.
C4_AmountHasCurrency ==
    pc = "returned" => \A k \in DOMAIN messages : HasCurrencyToken(messages[k])

\* A correction step whose oracle call raised.
RaisingCorrectionStep == pc = "optimize" /\ last_corr' = "raise"

\* C7 as claimed: a correction step whose oracle call raised leaves the
\* message as it was, and the loop goes on with the next evaluation.
C7_RaiseLeavesMessage ==
    [][RaisingCorrectionStep
         => /\ messages' = messages
            /\ pc' = "evaluate" /\ i' = i /\ stage' = stage]_vars

\* C7 amended: a correction step whose oracle call raised merges nothing and
\* changes at most the amount: a string amount of a single token gets " USD"
\* appended, every other field and every other message stays as it was; the
\* loop goes on with the next evaluation of the same message.
C7_RaiseOnlyRepairs ==
    [][RaisingCorrectionStep
         => /\ \A k \in DOMAIN messages : k # i => messages'[k] = messages[k]
            /\ DOMAIN messages' = DOMAIN messages
            /\ \A f \in DOMAIN messages[i] :
                  f # "amount" => messages'[i][f] = messages[i][f]
            /\ messages'[i].amount =
                  IF messages[i].amount_is_str /\ IsBare(messages[i].amount)
                  THEN messages[i].amount \o <<" ", "U", "S", "D">>
                  ELSE messages[i].amount
            /\ pc' = "evaluate" /\ i' = i /\ stage' = stage]_vars

\* C7 witness: the second message of a batch is back at its evaluation after
\* a correction call that raised, its amount repaired.
C7_Witness ==
    /\ last_corr = "raise"
    /\ pc = "evaluate"
    /\ i = 2
    /\ corr_calls[i] = 1
    /\ messages[i].amount = A15000USD

IsNumeric(s) == \A j \in DOMAIN s : s[j] \in Digits \cup {"."}

\* The amount the repair leaves of an amount a.
Repaired(a, is_str) ==
    IF is_str /\ IsBare(a) THEN a \o <<" ", "U", "S", "D">> ELSE a

\* C14 as claimed: a correction step turns a bare numeric string amount
\* into that amount followed by " USD", whatever the oracle did; and when
\* the oracle replaced nothing, an amount with a currency stays as it was.
C14_BareBecomesUSD ==
    [][(pc = "optimize")
         => /\ (messages[i].amount_is_str /\ IsBare(messages[i].amount)
                   /\ IsNumeric(messages[i].amount))
               => (messages'[i].amount
                     = messages[i].amount \o <<" ", "U", "S", "D">>)
            /\ (HasCurrencyToken(messages[i])
                   /\ last_corr' \in {"raise", "not_dict"})
               => (messages'[i].amount = messages[i].amount)]_vars

\* C14 amended: the repair acts on the amount the merge left.  When the
\* oracle call raised or returned no mapping, that is the former amount;
\* when it returned a mapping, it is the mapping's amount if it has one and
\* the former amount otherwise.  A string amount of a single token gets
\* " USD" appended; any other amount, with a currency or not a string, is
\* left as merged.
C14_RepairAfterMerge ==
    [][(pc = "optimize")
         => \/ /\ messages'[i].amount
                    = Repaired(messages[i].amount, messages[i].amount_is_str)
               /\ messages'[i].amount_is_str = messages[i].amount_is_str
            \/ /\ last_corr' = "dict"
               /\ \E r \in CorrResults :
                     /\ r.kind = "dict"
                     /\ "amount" \in r.value.keys
                     /\ messages'[i].amount
                          = Repaired(r.value.amount, r.value.amount_is_str)
                     /\ messages'[i].amount_is_str = r.value.amount_is_str]_vars

\* The oracle replaced the amount by a bare one and the repair completed it.
C14_Witness ==
    /\ pc = "evaluate"
    /\ last_corr = "dict"
    /\ corr_calls[i] >= 1
    /\ messages[i].amount = A250 \o <<" ", "U", "S", "D">>

\* C27: a correction step whose oracle returned a mapping leaves the message
\* with its former keys and the mapping's keys; every field of a key of the
\* mapping has the mapping's value and every other field its former value.
\* When the oracle returned no mapping, or raised, no key is added and no
\* field takes a new value.  The amount is the merged amount as the repair
\* that ends optimize_message leaves it.
C27_MergeSemantics ==
    [][(pc = "optimize")
         => \E r \in CorrResults :
               LET isMap == r.kind = "dict"
                   given(f) == isMap /\ (KeyOf(f) \in r.value.keys)
                   merged(f) == IF given(f) THEN r.value[f] ELSE messages[i][f]
               IN  /\ (r.kind = last_corr')
                   /\ (messages'[i].keys
                         = messages[i].keys
                             \cup (IF isMap THEN r.value.keys ELSE {}))
                   /\ (\A f \in (DOMAIN messages[i]) \ {"keys", "amount"} :
                          messages'[i][f] = merged(f))
                   /\ (messages'[i].amount
                         = Repaired(merged("amount"), merged("amount_is_str")))
                   /\ (\A k \in DOMAIN messages :
                          (k # i) => (messages'[k] = messages[k]))]_vars

\* The oracle's mapping brought a new key, currency, and a new amount; the
\* BICs and the id of the message are the former ones.
C27_Witness ==
    /\ pc = "evaluate"
    /\ last_corr = "dict"
    /\ "currency" \in messages[i].keys
    /\ messages[i].currency = EUR
    /\ messages[i].amount = A250EUR
    /\ messages[i].sender_bic = CHASUS33XXX
    /\ messages[i].message_id = MessageIds[i]
    /\ corr_calls[i] = 2

\* C8: after a failed evaluation call (it raised, or its result had no
\* verdict) the loop is still running or has returned its list.
C8_EvalFailureAbsorbed ==
    (\E k \in DOMAIN messages : "failed" \in Range(eval_log[k]))
        => pc \in {"evaluate", "optimize", "append", "returned"}

\* The loop is through with message k: it went on to a later message, or
\* it is about to append message k, has returned, or was left by an
\* exception.
LoopDoneWith(k) ==
    k < i \/ (k = i /\ pc \in {"append", "returned", "raised"})

\* C32: a message gets at most 2 correction calls; a correction is made
\* only after an invalid first or second evaluation, never after the third;
\* and every correction is followed by an evaluation of the message: when
\* the loop is through with a message, it has made one evaluation more
\* than corrections.
C32_CorrectionsReevaluated ==
    /\ \A k \in DOMAIN messages :
          /\ corr_calls[k] <= MAX_ITERATIONS - 1
          /\ corr_calls[k] <= eval_calls[k]
          /\ LoopDoneWith(k) => eval_calls[k] = corr_calls[k] + 1
    /\ pc = "optimize"
          => /\ eval_calls[i] <= 2
             /\ corr_calls[i] = eval_calls[i] - 1
             /\ eval_log[i][Len(eval_log[i])] = "invalid"
    /\ (stage = "evaluator_optimizer" /\ pc = "evaluate")
          => corr_calls[i] = eval_calls[i]

\* A message was corrected twice and its third evaluation found it valid.
C32_Witness ==
    /\ pc = "returned"
    /\ \E k \in DOMAIN messages :
          /\ corr_calls[k] = 2
          /\ eval_log[k] = <<"invalid", "invalid", "valid">>

\* C33: every message of the returned list has validation_status VALID or
\* INVALID; it is VALID exactly when its last evaluation returned valid,
\* and a VALID message has no validation errors.
C33_StatusIsLastVerdict ==
    pc = "returned"
    => \A j \in DOMAIN optimized_messages :
          LET k == optimized_messages[j]
              last == eval_log[k][Len(eval_log[k])]
          IN  /\ "validation_status" \in messages[k].keys
              /\ messages[k].validation_status \in {"VALID", "INVALID"}
              /\ eval_log[k] # <<>>
              /\ messages[k].validation_status = "VALID" <=> last = "valid"
              /\ messages[k].validation_status = "VALID"
                    => /\ "validation_errors" \in messages[k].keys
                       /\ messages[k].validation_errors = <<>>

\* The list is returned with a message VALID on its third evaluation, whose
\* result listed errors, and a message INVALID after three.
C33_Witness ==
    /\ pc = "returned"
    /\ stage = "evaluator_optimizer"
    /\ Len(messages) = 2
    /\ eval_log[1] = <<"invalid", "invalid", "valid">>
    /\ last_errors[1] # <<>>
    /\ messages[1].validation_status = "VALID"
    /\ messages[2].validation_status = "INVALID"

FraudFields == {"fraud_analysis", "fraud_status", "fraud_score", "fraud_reasons"}

\* C30: a message carries a fraud verdict only when the correction loop has
\* returned the whole batch and run has gone on to the fan-out; in the
\* chaining and orchestration steps every message carries fraud_status; and
\* the list handed to the first orchestration holds, once each and in batch
\* order, exactly the messages whose fraud_status is not FRAUDULENT.
C30_StageOrder ==
    /\ stage \in {"evaluator_optimizer", "parallelization", "prompt_chaining",
                  "orchestrator_worker"}
    /\ (\E k \in DOMAIN messages : FraudFields \cap messages[k].keys # {})
          => stage # "evaluator_optimizer"
    /\ stage # "evaluator_optimizer"
          => /\ pc = "returned"
             /\ optimized_messages = [k \in DOMAIN messages |-> k]
             /\ \A k \in DOMAIN messages :
                   /\ "fraud_status" \in messages[k].keys
                   /\ "validation_status" \in messages[k].keys
    /\ stage # "orchestrator_worker" => clean_messages = <<>>
    /\ stage = "orchestrator_worker"
          => /\ \A k \in DOMAIN messages :
                   Cardinality({j \in DOMAIN clean_messages : clean_messages[j] = k})
                      = IF messages[k].fraud_status = "FRAUDULENT" THEN 0 ELSE 1
             /\ \A j1, j2 \in DOMAIN clean_messages :
                   j1 < j2 => clean_messages[j1] < clean_messages[j2]

\* run is in its last step with a batch of two: the first message is
\* FRAUDULENT and only the second was handed to the first orchestration.
C30_Witness ==
    /\ stage = "orchestrator_worker"
    /\ Len(messages) = 2
    /\ messages[1].fraud_status = "FRAUDULENT"
    /\ messages[2].fraud_status = "CLEAN"
    /\ clean_messages = <<2>>

----------------------------------------------------------------------------
(* FraudAggAgent.aggregate_results as a function of its ordered input.     *)
(* A risk score is counted in thousandths, the confidence in hundredths of *)
(* a percent, total_risk_score in thousandths.                              *)

MaxScores == 3

threshold == 500

AgentNames == <<"FraudAmountDetectionAgent", "FraudPatternDetectionAgent",
                "GeographicRiskAgent", "CustomFraudAgent">>

\* Multiples of 0.1 on which the double arithmetic of aggregate_results (the
\* sum of up to MaxScores + 1 scores, its quotient by the count, both round()
\* calls) gives the decimal result.  0.2 and 0.7 are left out: the double sum
\* 0.6 + 0.7 + 0.2 is 1.4999999999999998.
RiskScores == {0, 100, 300, 400, 500, 600, 800, 900, 1000}

ReasonLists == {<<>>, <<"reason one", "reason two">>}

AgentScore(name, score, reasons) ==
    [agent |-> name, risk_score |-> score, fraud_reasons |-> reasons]

\* sum(r.get('risk_score', 0) for r in fraud_results)
RECURSIVE total_risk(_)
total_risk(results) ==
    IF results = <<>> THEN 0
    ELSE results[1].risk_score + total_risk(Tail(results))

\* round() of the quotient n / d: to the nearest integer, a tie to the even one.
round(n, d) ==
    LET q == n \div d
        r == n % d
    IN  IF 2 * r > d \/ (2 * r = d /\ q % 2 = 1) THEN q + 1 ELSE q

\* The reasons of one result prefixed, last reason first.
prefixed_reversed(result) ==
    [j \in DOMAIN result.fraud_reasons |->
        <<"[", result.agent, "] ",
          result.fraud_reasons[Len(result.fraud_reasons) + 1 - j]>>]

\* f"[{agent_name}] {reason}" for every reason of one result, in order.
prefixed(result) ==
    [j \in DOMAIN result.fraud_reasons |->
        <<"[", result.agent, "] ", result.fraud_reasons[j]>>]

RECURSIVE all_reasons(_)
all_reasons(results) ==
    IF results = <<>> THEN <<>>
    ELSE prefixed(results[1]) \o all_reasons(Tail(results))

\* The threshold test on the sum of the scores, not on their mean.
is_fraudulent_by_sum(total, count) == total >= threshold

\* The threshold test with > for >=.
is_fraudulent_strict(total, count) == total > threshold * count

\* avg_risk >= self.threshold, with avg_risk = total / count
is_fraudulent(total, count) == total >= threshold * count

\* The percentage truncated instead of rounded.
confidence_truncated(total, count) == (total * 10) \div count

\* round(avg_risk * 100, 2)
confidence(total, count) == round(total * 10, count)

\* The threshold test applied to the empty list as to any other.
aggregate_results_empty_by_threshold(results) ==
    IF results = <<>>
    THEN [is_fraudulent |-> is_fraudulent(0, 0), confidence |-> 0,
          total_risk_score |-> 0, aggregated_reasons |-> <<>>]
    ELSE LET total == total_risk(results)
             count == Len(results)
         IN  [is_fraudulent |-> is_fraudulent(total, count),
              confidence |-> confidence(total, count),
              total_risk_score |-> round(total, count),
              aggregated_reasons |-> all_reasons(results)]

\* A call that uses up the list it was given.
results_after_call_consumed(results) == <<>>

\* What a call leaves of the list it was given: aggregate_results only reads
\* the records (r.get, result.get) and builds all_reasons as a new list.
results_after_call(results) == results

aggregate_results(results) ==
    IF results = <<>>
    THEN [is_fraudulent |-> FALSE, confidence |-> 0, total_risk_score |-> 0,
          aggregated_reasons |-> <<>>]
    ELSE LET total == total_risk(results)
             count == Len(results)
         IN  [is_fraudulent |-> is_fraudulent(total, count),
              confidence |-> confidence(total, count),
              total_risk_score |-> round(total, count),
              aggregated_reasons |-> all_reasons(results)]

\* The loop of run is not running.
LoopStopped ==
    /\ stage = "none"
    /\ optimized_messages = <<>>
    /\ pc = "idle"
    /\ i = 1
    /\ iteration = 0
    /\ errors = <<>>
    /\ eval_calls = <<>>
    /\ corr_calls = <<>>
    /\ eval_log = <<>>
    /\ last_errors = <<>>
    /\ last_corr = "none"
    /\ clean_messages = <<>>

LoopIdle == messages = <<>> /\ LoopStopped

InitAgg ==
    /\ LoopIdle
    /\ ParIdle
    /\ UnitIdle
    /\ \E n \in 0..MaxScores :
          \E scores \in [1..n -> RiskScores] :
             \E reasons \in [1..n -> ReasonLists] :
                fraud_results = [k \in 1..n |->
                    AgentScore(AgentNames[k], scores[k], reasons[k])]
    /\ aggregated = [is_fraudulent |-> FALSE, confidence |-> 0,
                     total_risk_score |-> 0, aggregated_reasons |-> <<>>]
    /\ agg_pc = "call"

\* aggregated = aggregator.aggregate_results(agent_results)
\* The same aggregator may be called again with the same list.
Aggregate ==
    /\ agg_pc \in {"call", "done"}
    /\ aggregated' = aggregate_results(fraud_results)
    /\ fraud_results' = results_after_call(fraud_results)
    /\ agg_pc' = IF agg_pc = "call" THEN "done" ELSE "twice"
    /\ UNCHANGED <<loop_vars, par_vars, unit_vars>>

NextAgg == Aggregate

SpecAgg == InitAgg /\ [][NextAgg]_vars

----------------------------------------------------------------------------
(* Properties of the aggregator, checked under SpecAgg.                    *)

RECURSIVE SumScores(_, _)
SumScores(results, k) ==
    IF k = 0 THEN 0 ELSE results[k].risk_score + SumScores(results, k - 1)

Abs(x) == IF x < 0 THEN -x ELSE x

C11_EmptyVerdict ==
    (agg_pc \in {"done", "twice"} /\ fraud_results = <<>>)
    => aggregated = [is_fraudulent |-> FALSE, confidence |-> 0,
                     total_risk_score |-> 0, aggregated_reasons |-> <<>>]

C11_Witness == agg_pc = "done" /\ fraud_results = <<>>

\* The number of reasons of the first k records.
RECURSIVE ReasonsUpTo(_, _)
ReasonsUpTo(results, k) ==
    IF k = 0 THEN 0
    ELSE Len(results[k].fraud_reasons) + ReasonsUpTo(results, k - 1)

\* C28: aggregated_reasons has as many entries as the records have reasons
\* in all, and the j-th reason of the k-th record stands, prefixed with
\* "[<agent name>] ", at the place after all reasons of the records before
\* it and the reasons before it in its own record.
C28_ReasonsInOrder ==
    agg_pc \in {"done", "twice"}
    => LET out == aggregated.aggregated_reasons
       IN  /\ Len(out) = ReasonsUpTo(fraud_results, Len(fraud_results))
           /\ \A k \in DOMAIN fraud_results :
                 \A j \in DOMAIN fraud_results[k].fraud_reasons :
                    out[ReasonsUpTo(fraud_results, k - 1) + j]
                       = <<"[", fraud_results[k].agent, "] ",
                           fraud_results[k].fraud_reasons[j]>>

\* Three records aggregated, the second without reasons, the others with
\* two each.
C28_Witness ==
    /\ agg_pc = "done"
    /\ Len(fraud_results) = 3
    /\ Len(fraud_results[1].fraud_reasons) = 2
    /\ fraud_results[2].fraud_reasons = <<>>
    /\ Len(fraud_results[3].fraud_reasons) = 2
    /\ Len(aggregated.aggregated_reasons) = 4
    /\ aggregated.aggregated_reasons[3][2] = "GeographicRiskAgent"

----------------------------------------------------------------------------
(* The scoring agents.  A reason is a tuple of strings, to be read joined. *)

Min(a, b) == IF a < b THEN a ELSE b

DigitValue ==
    [c \in Digits |->
        CASE c = "0" -> 0 [] c = "1" -> 1 [] c = "2" -> 2 [] c = "3" -> 3
          [] c = "4" -> 4 [] c = "5" -> 5 [] c = "6" -> 6 [] c = "7" -> 7
          [] c = "8" -> 8 [] c = "9" -> 9]

LowerToUpper ==
    [c \in {"a", "c", "d", "e", "f", "g", "i", "k", "l", "m", "n", "o", "r",
            "s", "t", "u", "y"} |->
        CASE c = "a" -> "A" [] c = "c" -> "C" [] c = "d" -> "D" [] c = "e" -> "E"
          [] c = "f" -> "F" [] c = "g" -> "G" [] c = "i" -> "I" [] c = "k" -> "K"
          [] c = "l" -> "L" [] c = "m" -> "M" [] c = "n" -> "N" [] c = "o" -> "O"
          [] c = "r" -> "R" [] c = "s" -> "S" [] c = "t" -> "T" [] c = "u" -> "U"
          [] c = "y" -> "Y"]

\* str.upper() and str.lower(), character by character.
upper(s) ==
    [j \in DOMAIN s |->
        IF s[j] \in DOMAIN LowerToUpper THEN LowerToUpper[s[j]] ELSE s[j]]

lower(s) ==
    [j \in DOMAIN s |->
        IF \E c \in DOMAIN LowerToUpper : LowerToUpper[c] = s[j]
        THEN CHOOSE c \in DOMAIN LowerToUpper : LowerToUpper[c] = s[j]
        ELSE s[j]]

\* pattern in s
Contains(pattern, s) ==
    \E k \in 0..(Len(s) - Len(pattern)) :
        \A j \in 1..Len(pattern) : s[k + j] = pattern[j]

\* s[a:b]: a slice never raises, it is cut at the end of the string.
slice(s, a, b) == SubSeq(s, a + 1, Min(b, Len(s)))

RECURSIVE CountOf(_, _)
CountOf(c, s) ==
    IF s = <<>> THEN 0
    ELSE (IF s[1] = c THEN 1 ELSE 0) + CountOf(c, Tail(s))

RECURSIVE DecimalValue(_)
DecimalValue(digits) ==
    IF digits = <<>> THEN 0
    ELSE 10 * DecimalValue(SubSeq(digits, 1, Len(digits) - 1))
         + DigitValue[digits[Len(digits)]]

IsDigitOrDot(c) == c \in Digits \/ c = "."

\* ''.join(c for c in amount_str if c.isdigit() or c == '.')
digits_and_dots(amount_str) == SelectSeq(amount_str, IsDigitOrDot)

\* Whether float() accepts a string of digits and dots: at most one dot and
\* at least one digit.
float_accepts(text) == CountOf(".", text) <= 1 /\ Len(text) > CountOf(".", text)

RECURSIVE UpToDot(_)
UpToDot(text) ==
    IF text = <<>> \/ text[1] = "." THEN <<>>
    ELSE <<text[1]>> \o UpToDot(Tail(text))

RECURSIVE StripZerosRight(_)
StripZerosRight(digits) ==
    IF digits # <<>> /\ digits[Len(digits)] = "0"
    THEN StripZerosRight(SubSeq(digits, 1, Len(digits) - 1))
    ELSE digits

RECURSIVE StripZerosLeft(_)
StripZerosLeft(digits) ==
    IF Len(digits) > 1 /\ digits[1] = "0"
    THEN StripZerosLeft(Tail(digits))
    ELSE digits

\* float(text) as its whole part and the digits of its fraction, without
\* trailing zeros.
float(text) ==
    LET before == UpToDot(text)
        after == SubSeq(text, Len(before) + 2, Len(text))
    IN  [whole |-> DecimalValue(before),
         whole_digits |-> StripZerosLeft(IF before = <<>> THEN <<"0">> ELSE before),
         fraction |-> StripZerosRight(after)]

\* str(amount) of a float: "15000.0", "0.5"
float_str(amount) ==
    amount.whole_digits \o <<".">>
        \o (IF amount.fraction = <<>> THEN <<"0">> ELSE amount.fraction)

AgentResult(name, score, reasons) ==
    [keys |-> {"agent", "risk_score", "fraud_reasons"},
     agent |-> name, risk_score |-> score, fraud_reasons |-> reasons,
     error |-> "", message_id |-> ""]

\* A score returned as it was summed.
clamp_none(risk_score) == risk_score

\* min(risk_score, 1.0)
clamp(risk_score) == Min(risk_score, 1000)

\* The rules with a round-amount rule that does not ask for amount > 0.
amount_rules_zero_is_round(amount) ==
    <<[fired |-> amount.whole > 10000
                  \/ (amount.whole = 10000 /\ amount.fraction # <<>>),
       weight |-> 300,
       reason |-> <<"High amount transaction: ">> \o float_str(amount)],
      [fired |-> amount.fraction = <<>> /\ amount.whole % 1000 = 0,
       weight |-> 200,
       reason |-> <<"Suspiciously round amount: ">> \o float_str(amount)],
      [fired |-> amount.whole >= 100000 /\ amount.fraction # <<>>,
       weight |-> 100,
       reason |-> <<"Large amount with unusual decimal precision">>]>>

\* The rules with a round-amount test on the whole part of the amount.
amount_rules_round_by_whole(amount) ==
    <<[fired |-> amount.whole > 10000
                  \/ (amount.whole = 10000 /\ amount.fraction # <<>>),
       weight |-> 300,
       reason |-> <<"High amount transaction: ">> \o float_str(amount)],
      [fired |-> amount.whole % 1000 = 0 /\ amount.whole > 0,
       weight |-> 200,
       reason |-> <<"Suspiciously round amount: ">> \o float_str(amount)],
      [fired |-> amount.whole >= 100000 /\ amount.fraction # <<>>,
       weight |-> 100,
       reason |-> <<"Large amount with unusual decimal precision">>]>>

\* The three rules of FraudAmountDetectionAgent, as (fired, weight, reason).
amount_rules(amount) ==
    <<[fired |-> amount.whole > 10000
                  \/ (amount.whole = 10000 /\ amount.fraction # <<>>),
       weight |-> 300,
       reason |-> <<"High amount transaction: ">> \o float_str(amount)],
      [fired |-> amount.fraction = <<>> /\ amount.whole % 1000 = 0
                  /\ amount.whole > 0,
       weight |-> 200,
       reason |-> <<"Suspiciously round amount: ">> \o float_str(amount)],
      [fired |-> amount.whole >= 100000 /\ amount.fraction # <<>>,
       weight |-> 100,
       reason |-> <<"Large amount with unusual decimal precision">>]>>

\* risk_score and fraud_reasons after a list of rules: += weight and
\* append(reason) for every rule that fired, in order.
RECURSIVE fired_weight(_)
fired_weight(rules) ==
    IF rules = <<>> THEN 0
    ELSE (IF rules[1].fired THEN rules[1].weight ELSE 0)
         + fired_weight(Tail(rules))

RECURSIVE fired_reasons(_)
fired_reasons(rules) ==
    IF rules = <<>> THEN <<>>
    ELSE (IF rules[1].fired THEN <<rules[1].reason>> ELSE <<>>)
         \o fired_reasons(Tail(rules))

\* FraudAmountDetectionAgent.analyze.  An amount that is no string cannot be
\* iterated (TypeError), a text float() rejects is a ValueError: both are
\* caught before any rule has run.
analyze_amount(message) ==
    LET amount_str == IF "amount" \in message.keys
                      THEN message.amount ELSE <<"0">>
        is_str == "amount" \notin message.keys \/ message.amount_is_str
        text == digits_and_dots(amount_str)
        rules == IF is_str /\ float_accepts(text)
                 THEN amount_rules(float(text)) ELSE <<>>
    IN  [raised |-> FALSE,
         result |-> AgentResult("FraudAmountDetectionAgent",
                                clamp(fired_weight(rules)),
                                fired_reasons(rules))]

high_risk_patterns ==
    <<<<"T", "E", "S", "T">>, <<"F", "A", "K", "E">>, <<"D", "E", "M", "O">>,
      <<"9", "9", "9">>, <<"0", "0", "0", "0", "0", "0">>>>

suspicious_keywords ==
    <<<<"u", "r", "g", "e", "n", "t">>,
      <<"i", "m", "m", "e", "d", "i", "a", "t", "e", "l", "y">>,
      <<"s", "e", "c", "r", "e", "t">>,
      <<"c", "o", "n", "f", "i", "d", "e", "n", "t", "i", "a", "l">>>>

\* message.get(key, '')
get_str(message, key) == IF key \in message.keys THEN message[key] ELSE <<>>

\* The rules with a same-BIC rule that does not ask for a non-empty BIC.
pattern_rules_empty_equal(sender_bic, receiver_bic, remittance) ==
    [k \in 1..Len(high_risk_patterns) |->
        [fired |-> Contains(high_risk_patterns[k], upper(sender_bic))
                    \/ Contains(high_risk_patterns[k], upper(receiver_bic)),
         weight |-> 400,
         reason |-> <<"Test/fake pattern detected in BIC: ">>
                      \o high_risk_patterns[k]]]
    \o <<[fired |-> sender_bic = receiver_bic,
          weight |-> 500,
          reason |-> <<"Same sender and receiver BIC">>]>>
    \o [k \in 1..Len(suspicious_keywords) |->
        [fired |-> Contains(suspicious_keywords[k], remittance),
         weight |-> 200,
         reason |-> <<"Suspicious keyword in remittance: ">>
                      \o suspicious_keywords[k]]]

\* The rules of FraudPatternDetectionAgent in the order of its code.
pattern_rules(sender_bic, receiver_bic, remittance) ==
    [k \in 1..Len(high_risk_patterns) |->
        [fired |-> Contains(high_risk_patterns[k], upper(sender_bic))
                    \/ Contains(high_risk_patterns[k], upper(receiver_bic)),
         weight |-> 400,
         reason |-> <<"Test/fake pattern detected in BIC: ">>
                      \o high_risk_patterns[k]]]
    \o <<[fired |-> sender_bic # <<>> /\ sender_bic = receiver_bic,
          weight |-> 500,
          reason |-> <<"Same sender and receiver BIC">>]>>
    \o [k \in 1..Len(suspicious_keywords) |->
        [fired |-> Contains(suspicious_keywords[k], remittance),
         weight |-> 200,
         reason |-> <<"Suspicious keyword in remittance: ">>
                      \o suspicious_keywords[k]]]

\* FraudPatternDetectionAgent.analyze.  None has no upper(): the sender's is
\* called for the first pattern, the receiver's for the first pattern the
\* sender does not contain.  Nothing in analyze catches the AttributeError.
analyze_pattern(message) ==
    LET sender_bic == get_str(message, "sender_bic")
        receiver_bic == get_str(message, "receiver_bic")
        info == get_str(message, "remittance_info")
        remittance == IF info = NoneValue THEN <<>> ELSE lower(info)
        raises ==
            \/ sender_bic = NoneValue
            \/ /\ receiver_bic = NoneValue
               /\ \E k \in DOMAIN high_risk_patterns :
                     ~Contains(high_risk_patterns[k], upper(sender_bic))
        rules == IF raises THEN <<>>
                 ELSE pattern_rules(sender_bic, receiver_bic, remittance)
    IN  [raised |-> raises,
         result |-> AgentResult("FraudPatternDetectionAgent",
                                clamp(fired_weight(rules)),
                                fired_reasons(rules))]

HIGH_RISK_COUNTRIES == {<<"I", "R">>, <<"K", "P">>, <<"S", "Y">>, <<"A", "F">>}

\* GeographicRiskAgent.analyze.  Both slices are taken before either test:
\* a None on either side is a TypeError, swallowed before any score is added.
analyze_geographic(message) ==
    LET sender_bic == get_str(message, "sender_bic")
        receiver_bic == get_str(message, "receiver_bic")
        swallowed == sender_bic = NoneValue \/ receiver_bic = NoneValue
        sender_country == slice(sender_bic, 4, 6)
        receiver_country == slice(receiver_bic, 4, 6)
        rules ==
            IF swallowed THEN <<>>
            ELSE <<[fired |-> sender_country \in HIGH_RISK_COUNTRIES,
                    weight |-> 400,
                    reason |-> <<"High-risk sender country: ">> \o sender_country],
                   [fired |-> receiver_country \in HIGH_RISK_COUNTRIES,
                    weight |-> 400,
                    reason |-> <<"High-risk receiver country: ">>
                                 \o receiver_country]>>
    IN  [raised |-> FALSE,
         result |-> AgentResult("GeographicRiskAgent",
                                clamp(fired_weight(rules)),
                                fired_reasons(rules))]

\* self.list_of_agents, by position.
NumAgents == 3

analyze(agent, message) ==
    CASE agent = 1 -> analyze_amount(message)
      [] agent = 2 -> analyze_pattern(message)
      [] agent = 3 -> analyze_geographic(message)

\* ParallelizationPattern._process_message: the agent's result with the
\* message_id added, or the error record when analyze raised.
process_message(message, agent) ==
    LET outcome == analyze(agent, message)
    IN  IF outcome.raised
        THEN [keys |-> {"agent", "error", "risk_score", "fraud_reasons"},
              agent |-> AgentNames[agent], risk_score |-> 0,
              fraud_reasons |-> <<>>, error |-> "exception", message_id |-> ""]
        ELSE [outcome.result EXCEPT
                !.keys = @ \cup {"message_id"},
                !.message_id = IF "message_id" \in message.keys
                               THEN message.message_id ELSE "unknown"]

----------------------------------------------------------------------------
(* ParallelizationPattern.process_batch_parallel.  The scoring task of     *)
(* message m and agent a is task (m - 1) * NumAgents + a: the order of the  *)
(* submit calls, which is the order the pool starts them in.                *)
(*                                                                         *)
(* Time is not counted.  A fast task ends well within any timeout once it  *)
(* runs; a slow task may end at any time or never.  A wait times out only  *)
(* when no fast step is possible: no fast task runs and the pool can start *)
(* no queued task.                                                          *)

ParMsgs == 2

MaxWorkers == 3

TESTIR33 == <<"T", "E", "S", "T", "I", "R", "3", "3">>

Urgent == <<"U", "r", "g", "e", "n", "t">>

\* The messages a batch is drawn from, as the correction loop leaves them:
\* an inconspicuous one, one that every agent flags, and one whose
\* sender_bic is None.
Templates(id) ==
    <<SetStatus(Message(id, A250EUR, CHASUS33XXX, DEUTDEFFXXX, <<>>),
                "VALID", <<>>),
      SetStatus(Message(id, A15000USD, TESTIR33, TESTIR33, Urgent),
                "INVALID", ErrorsA),
      SetStatus(Message(id, A15000USD, NoneValue, DEUTDEFFXXX, NoneValue),
                "INVALID", ErrorsB)>>

MsgOf(t) == ((t - 1) \div NumAgents) + 1

AgentOf(t) == ((t - 1) % NumAgents) + 1

TaskOf(m, a) == (m - 1) * NumAgents + a

NoResult == AgentResult("", 0, <<>>)

InitPar ==
    /\ LoopStopped
    /\ AggIdle
    /\ UnitIdle
    /\ \E n \in 1..ParMsgs :
          \E choice \in [1..n -> 1..3] :
             messages = [k \in 1..n |-> Templates(MessageIds[k])[choice[k]]]
    /\ max_workers \in 1..MaxWorkers
    /\ task = [t \in 1..(Len(messages) * NumAgents) |-> "none"]
    /\ task_result = [t \in 1..(Len(messages) * NumAgents) |-> NoResult]
    /\ speed = [t \in 1..(Len(messages) * NumAgents) |-> "unset"]
    /\ future_to_msg = <<>>
    /\ par_pc = "submit"
    /\ cm = 1
    /\ ca = 1
    /\ agent_results = <<>>
    /\ processed_messages = <<>>
    /\ timed_out = {}

\* A dictionary that lists a new key first.
dict_set_new_key_first(dict, entry) ==
    IF \E k \in DOMAIN dict : dict[k].id = entry.id
    THEN [k \in DOMAIN dict |->
            IF dict[k].id = entry.id THEN entry ELSE dict[k]]
    ELSE <<entry>> \o dict

\* A dictionary whose entries all land on one key: the last entry wins.
dict_set_one_key(dict, entry) == <<entry>>

\* future_to_msg[key] = entry: a new key goes last, a known key keeps its
\* place and gets the new entry.
dict_set(dict, entry) ==
    IF \E k \in DOMAIN dict : dict[k].id = entry.id
    THEN [k \in DOMAIN dict |->
            IF dict[k].id = entry.id THEN entry ELSE dict[k]]
    ELSE Append(dict, entry)

\* The futures of a message listed last agent first.
agent_futures_reversed(m) ==
    [a \in 1..NumAgents |-> TaskOf(m, NumAgents + 1 - a)]

\* agent_futures after the inner loop: one future per agent, appended in
\* the order of list_of_agents.
agent_futures(m) == [a \in 1..NumAgents |-> TaskOf(m, a)]

\* One pass of the submission loop: executor.submit(self._process_message,
\* message, agent) for every agent in list order, then the entry of the
\* message in future_to_msg.
Submit ==
    /\ par_pc = "submit"
    /\ task' = [t \in DOMAIN task |->
                 IF MsgOf(t) = cm THEN "queued" ELSE task[t]]
    /\ future_to_msg' = dict_set(future_to_msg,
          [id |-> messages[cm].message_id, message |-> cm,
           futures |-> agent_futures(cm)])
    /\ IF cm < Len(messages)
       THEN cm' = cm + 1 /\ UNCHANGED par_pc
       ELSE cm' = 1 /\ par_pc' = "collect"
    /\ UNCHANGED <<messages, max_workers, task_result, ca, agent_results,
                   processed_messages, timed_out, speed, loop_less_messages,
                   agg_vars, unit_vars>>

Running == {t \in DOMAIN task : task[t] = "running"}

Queued == {t \in DOMAIN task : task[t] = "queued"}

\* A worker thread is free for the head of the work queue.
CanStart == Queued # {} /\ Cardinality(Running) < max_workers

\* A worker takes the oldest queued task.
Start ==
    /\ CanStart
    /\ LET t == CHOOSE q \in Queued : \A o \in Queued : q <= o
       IN  /\ task' = [task EXCEPT ![t] = "running"]
           /\ \E sp \in {"fast", "slow"} :
                 speed' = [speed EXCEPT ![t] = sp]
    /\ UNCHANGED <<messages, max_workers, task_result, future_to_msg, par_pc,
                   cm, ca, agent_results, processed_messages, timed_out,
                   loop_less_messages, agg_vars, unit_vars>>

\* Every task bound to the first message of the batch.
task_args_first_message(t) == [message |-> 1, agent |-> AgentOf(t)]

\* The arguments executor.submit binds to task t: the message object itself
\* (its index in messages, no copy) and the agent instance of the list.
task_args(t) == [message |-> MsgOf(t), agent |-> AgentOf(t)]

\* _process_message returns: the task reads the message object itself.
Finish(t) ==
    /\ task[t] = "running"
    /\ task' = [task EXCEPT ![t] = "done"]
    /\ task_result' = [task_result EXCEPT
                          ![t] = process_message(messages[task_args(t).message],
                                                 task_args(t).agent)]
    /\ UNCHANGED <<messages, max_workers, future_to_msg, par_pc, cm, ca,
                   agent_results, processed_messages, timed_out, speed,
                   loop_less_messages, agg_vars, unit_vars>>

CurrentFuture == future_to_msg[cm].futures[ca]

\* The inner loop of the collection moves to the next future, or is over.
NextFuture ==
    IF ca < Len(future_to_msg[cm].futures)
    THEN ca' = ca + 1 /\ UNCHANGED par_pc
    ELSE UNCHANGED ca /\ par_pc' = "aggregate"

\* result = future.result(timeout=5); agent_results.append(result)
Result ==
    /\ par_pc = "collect"
    /\ task[CurrentFuture] = "done"
    /\ agent_results' = Append(agent_results, task_result[CurrentFuture])
    /\ NextFuture
    /\ UNCHANGED <<messages, max_workers, task, task_result, future_to_msg, cm,
                   processed_messages, timed_out, speed, loop_less_messages,
                   agg_vars, unit_vars>>

\* A timeout that leaves a zero-risk error record in the result list.
after_timeout_error_record(results, t) ==
    Append(results,
           [keys |-> {"agent", "error", "risk_score", "fraud_reasons"},
            agent |-> AgentNames[AgentOf(t)], risk_score |-> 0,
            fraud_reasons |-> <<>>, error |-> "timeout", message_id |-> ""])

\* except Exception as e: print(...): nothing is appended.
after_timeout(results, t) == results

\* future.result(timeout=5) raises TimeoutError.
TimeOut ==
    /\ par_pc = "collect"
    /\ task[CurrentFuture] # "done"
    /\ ~CanStart
    /\ \A t \in Running : speed[t] # "fast"
    /\ agent_results' = after_timeout(agent_results, CurrentFuture)
    /\ timed_out' = timed_out \cup {CurrentFuture}
    /\ NextFuture
    /\ UNCHANGED <<messages, max_workers, task, task_result, future_to_msg, cm,
                   processed_messages, speed, loop_less_messages, agg_vars, unit_vars>>

\* Lines 199-209: the aggregate of the collected results is written on the
\* message, and the message goes to processed_messages.
Join ==
    /\ par_pc = "aggregate"
    /\ LET verdict == aggregate_results(agent_results)
           m == future_to_msg[cm].message
       IN  /\ messages' = [messages EXCEPT ![m] =
                 [@ EXCEPT !.keys = @ \cup {"fraud_analysis", "fraud_status",
                                            "fraud_score", "fraud_reasons"},
                           !.fraud_analysis = agent_results,
                           !.fraud_status = IF verdict.is_fraudulent
                                            THEN "FRAUDULENT" ELSE "CLEAN",
                           !.fraud_score = verdict.confidence,
                           !.fraud_reasons = verdict.aggregated_reasons]]
           /\ processed_messages' = Append(processed_messages, m)
    /\ agent_results' = <<>>
    /\ ca' = 1
    /\ IF cm < Len(future_to_msg)
       THEN cm' = cm + 1 /\ par_pc' = "collect"
       ELSE UNCHANGED cm /\ par_pc' = "shutdown"
    /\ UNCHANGED <<max_workers, task, task_result, future_to_msg, timed_out,
                   speed, loop_less_messages, agg_vars, unit_vars>>

\* The end of the with block is executor.shutdown(wait=True): it returns
\* when every submitted task has run to its end.  Then the method returns.
Return ==
    /\ par_pc = "shutdown"
    /\ \A t \in DOMAIN task : task[t] = "done"
    /\ par_pc' = "returned"
    /\ UNCHANGED <<messages, max_workers, task, task_result, future_to_msg, cm,
                   ca, agent_results, processed_messages, timed_out, speed,
                   loop_less_messages, agg_vars, unit_vars>>

NextPar ==
    \/ Submit
    \/ Start
    \/ \E t \in DOMAIN task : Finish(t)
    \/ Result
    \/ TimeOut
    \/ Join
    \/ Return

SpecPar == InitPar /\ [][NextPar]_vars

----------------------------------------------------------------------------
(* Properties of the fan-out.                                              *)

Joined == {processed_messages[k] : k \in DOMAIN processed_messages}

TimedOutOf(m) == {a \in 1..NumAgents : TaskOf(m, a) \in timed_out}

\* The records of agent a in the result set of message m.
RecordsOf(m, a) ==
    {k \in DOMAIN messages[m].fraud_analysis :
        messages[m].fraud_analysis[k].agent = AgentNames[a]}

HasVerdict(m) ==
    {"fraud_status", "fraud_score", "fraud_reasons"} \subseteq messages[m].keys

\* C5: when the batch is through, if only tasks of one agent a0 are slow
\* (every task of the other agents ends promptly once it runs), then every
\* message has a verdict and no task of another agent timed out or is
\* missing from its message's result set.
C5_OthersNeverLost ==
    par_pc \in {"shutdown", "returned"}
    => \A a0 \in 1..NumAgents :
          (\A t \in DOMAIN task : speed[t] = "slow" => AgentOf(t) = a0)
          => \A m \in DOMAIN messages :
                /\ HasVerdict(m)
                /\ \A a \in (1..NumAgents) \ {a0} :
                      /\ TaskOf(m, a) \notin timed_out
                      /\ RecordsOf(m, a) # {}

\* C6: the fraud_score of a joined message is 100 times the sum of the
\* risk scores of its result set divided by the number of configured
\* agents, and the result set has one record per configured agent, a failed
\* or timed-out agent being there with risk 0 and an error marker.
C6_AllAgentsInDenominator ==
    \A m \in Joined :
       LET analysis == messages[m].fraud_analysis
           sum == SumScores(analysis, Len(analysis))
       IN  /\ \A a \in 1..NumAgents : Cardinality(RecordsOf(m, a)) = 1
           /\ 2 * Abs(messages[m].fraud_score * NumAgents - sum * 10)
                 <= NumAgents
           /\ \A a \in TimedOutOf(m) :
                 \A k \in RecordsOf(m, a) :
                    /\ analysis[k].risk_score = 0
                    /\ "error" \in analysis[k].keys

\* C6, as the code has it: the fraud_score of a joined message is the
\* multiple of 0.01 nearest to 100 times the mean of the risk scores that
\* were collected for it, and 0 when none was collected.  An agent whose
\* analyze raised is collected with risk 0 and an error key; an agent whose
\* wait timed out has no record and is counted neither in the sum nor in
\* the denominator.
C6_MeanOfCollected ==
    \A m \in Joined :
       LET analysis == messages[m].fraud_analysis
           count == Len(analysis)
           sum == SumScores(analysis, count)
       IN  /\ count = NumAgents - Cardinality(TimedOutOf(m))
           /\ \A a \in 1..NumAgents :
                 Cardinality(RecordsOf(m, a))
                    = IF a \in TimedOutOf(m) THEN 0 ELSE 1
           /\ IF count = 0
              THEN messages[m].fraud_score = 0
              ELSE 2 * Abs(messages[m].fraud_score * count - sum * 10) <= count
           /\ \A a \in 1..NumAgents :
                 analyze(a, messages[m]).raised
                 => \A k \in RecordsOf(m, a) :
                       /\ analysis[k].risk_score = 0
                       /\ "error" \in analysis[k].keys

\* A joined message with one agent timed out, one agent that raised and one
\* that scored: its fraud_score is the mean over the two collected records.
C6_Witness ==
    \E m \in Joined :
       /\ Cardinality(TimedOutOf(m)) = 1
       /\ Len(messages[m].fraud_analysis) = 2
       /\ \E k \in DOMAIN messages[m].fraud_analysis :
             "error" \in messages[m].fraud_analysis[k].keys
       /\ messages[m].fraud_score = 2500

\* C9: once every future has been waited on, the call can return even
\* though a task that timed out is still running and never ends.
C9_AbandonedTaskDoesNotBlock ==
    (/\ par_pc = "shutdown"
     /\ \A t \in DOMAIN task :
           \/ task[t] = "done"
           \/ task[t] = "running" /\ speed[t] = "slow" /\ t \in timed_out)
    => ENABLED Return

\* C21: when the join step is about to write the verdict on a message,
\* every scoring task submitted for that message has ended, also when one
\* of its waits timed out.
C21_WriteAfterJoin ==
    par_pc = "aggregate"
    => \A a \in 1..NumAgents :
          task[TaskOf(future_to_msg[cm].message, a)] = "done"

\* C22: no running scoring task holds the message object the join step is
\* about to write to.
C22_NoSharedMessage ==
    par_pc = "aggregate"
    => \A t \in Running : task_args(t).message # future_to_msg[cm].message

\* C23: one task per (message, agent) pair; every record in a joined
\* message's result set is the result of one of that message's own tasks and
\* carries that message's id; fraud_status is FRAUDULENT exactly when the
\* mean of the collected risk scores is at least 0.5, fraud_score is the
\* confidence of the aggregate of the collected records, between 0 and 100,
\* and fraud_reasons its aggregated_reasons.
C23_OwnResultsOnly ==
    /\ DOMAIN task = 1..(Len(messages) * NumAgents)
    /\ \A t \in DOMAIN task :
          /\ TaskOf(task_args(t).message, task_args(t).agent) = t
          /\ par_pc # "submit" => task[t] # "none"
    /\ \A m \in Joined :
          LET analysis == messages[m].fraud_analysis
              count == Len(analysis)
              sum == SumScores(analysis, count)
          IN  /\ \A k \in DOMAIN analysis :
                    /\ \E a \in 1..NumAgents :
                          /\ task[TaskOf(m, a)] = "done"
                          /\ analysis[k] = task_result[TaskOf(m, a)]
                    /\ "message_id" \in analysis[k].keys
                         => analysis[k].message_id = messages[m].message_id
              /\ messages[m].fraud_status \in {"FRAUDULENT", "CLEAN"}
              /\ messages[m].fraud_status = "FRAUDULENT"
                    <=> (count > 0 /\ 2 * sum >= 1000 * count)
              /\ messages[m].fraud_score = aggregate_results(analysis).confidence
              /\ messages[m].fraud_score >= 0
              /\ messages[m].fraud_score <= 10000
              /\ messages[m].fraud_reasons
                    = aggregate_results(analysis).aggregated_reasons

\* Two messages joined with all their results: the first CLEAN, the second
\* FRAUDULENT.
C23_Witness ==
    /\ Joined = {1, 2}
    /\ Len(messages[1].fraud_analysis) = NumAgents
    /\ Len(messages[2].fraud_analysis) = NumAgents
    /\ messages[1].fraud_status = "CLEAN"
    /\ messages[2].fraud_status = "FRAUDULENT"
    /\ messages[2].fraud_score = 7667

\* C24: a joined message with no collected score carries fraud_status
\* CLEAN, fraud_score 0 and no fraud reasons; every message of the batch,
\* the INVALID ones included, is in the returned list; and a message none of
\* whose own tasks is slow is scored as it would be alone: none of its
\* tasks timed out.
C24_FailingMessageIsolated ==
    /\ \A m \in Joined :
          /\ HasVerdict(m)
          /\ Len(messages[m].fraud_analysis) = 0
                => /\ messages[m].fraud_status = "CLEAN"
                   /\ messages[m].fraud_score = 0
                   /\ messages[m].fraud_reasons = <<>>
          /\ (\A a \in 1..NumAgents : speed[TaskOf(m, a)] # "slow")
                => TimedOutOf(m) = {}
    /\ par_pc \in {"shutdown", "returned"} => Joined = DOMAIN messages

AgentIndex(name) == CHOOSE a \in DOMAIN AgentNames : AgentNames[a] = name

InAgentOrder(results) ==
    \A j, k \in DOMAIN results :
       j < k => AgentIndex(results[j].agent) < AgentIndex(results[k].agent)

\* C20: whatever the order in which the tasks end, the results collected
\* for a message, while they are collected and as written to fraud_analysis,
\* are in the order the agents were submitted (amount, pattern, geographic),
\* and fraud_reasons lists the reasons in that order.
C20_SubmissionOrder ==
    /\ InAgentOrder(agent_results)
    /\ \A m \in Joined :
          /\ InAgentOrder(messages[m].fraud_analysis)
          /\ messages[m].fraud_reasons = all_reasons(messages[m].fraud_analysis)

\* The collection has taken the first agent's result and waits for the
\* second agent's task, which still runs, while the third agent's task has
\* already ended.
C20_Witness ==
    /\ par_pc = "collect"
    /\ ca = 2
    /\ Len(agent_results) = 1
    /\ task[future_to_msg[cm].futures[2]] = "running"
    /\ task[future_to_msg[cm].futures[3]] = "done"
    /\ task_result[future_to_msg[cm].futures[3]].fraud_reasons # <<>>

----------------------------------------------------------------------------
(* The two stages that hand messages on, each on its own batch: a behaviour *)
(* is a run of process_with_evaluator_optimizer followed by the later steps *)
(* of run, or a run of process_batch_parallel.                              *)

InitStages == Init \/ InitPar

NextStages == Next \/ NextPar

SpecStages == InitStages /\ [][NextStages]_vars

\* C25: the list returned by process_with_evaluator_optimizer and the list
\* returned by process_batch_parallel each hold every message of the input
\* batch exactly once: as many entries as messages, none dropped, none
\* twice.
C25_NoMessageDropped ==
    /\ pc = "returned"
          => /\ Len(optimized_messages) = Len(messages)
             /\ \A m \in DOMAIN messages :
                   Cardinality({k \in DOMAIN optimized_messages :
                                  optimized_messages[k] = m}) = 1
    /\ par_pc \in {"shutdown", "returned"}
          => /\ Len(processed_messages) = Len(messages)
             /\ \A m \in DOMAIN messages :
                   Cardinality({k \in DOMAIN processed_messages :
                                  processed_messages[k] = m}) = 1

\* process_batch_parallel has returned a batch of two, one of them INVALID
\* and one with no score collected.
C25_Witness ==
    /\ par_pc = "returned"
    /\ Len(processed_messages) = 2
    /\ \E m \in Joined : messages[m].validation_status = "INVALID"
    /\ \E m \in Joined : messages[m].fraud_analysis = <<>>

\* The list holds the first messages of the batch, in batch order.
InInputOrder(list) ==
    /\ Len(list) <= Len(messages)
    /\ \A k \in DOMAIN list : list[k] = k

\* C34: a step of the correction loop makes calls for the current message
\* only, the loop never goes back to an earlier message, and no call was
\* made for a message it has not come to; the list it builds, and the list
\* process_batch_parallel builds, hold the messages in input order at every
\* moment, and all of them when the method is through.
C34_InputOrder ==
    [][/\ (\A k \in DOMAIN eval_calls :
             (k # i) => ((eval_calls'[k] = eval_calls[k])
                         /\ (corr_calls'[k] = corr_calls[k])))
       /\ (i' >= i)
       /\ (\A k \in DOMAIN eval_calls' :
             (k > i') => ((eval_calls'[k] = 0) /\ (corr_calls'[k] = 0)))
       /\ InInputOrder(optimized_messages')
       /\ InInputOrder(processed_messages')
       /\ ((pc' = "returned") => (Len(optimized_messages') = Len(messages')))
       /\ ((par_pc' \in {"shutdown", "returned"})
             => (Len(processed_messages') = Len(messages')))]_vars

\* The collector waits for the first task of the first message while the
\* three tasks of the second message have ended.
C34_Witness ==
    /\ par_pc = "collect"
    /\ cm = 1
    /\ ca = 1
    /\ Len(messages) = 2
    /\ task[TaskOf(1, 1)] = "running"
    /\ \A a \in 1..NumAgents : task[TaskOf(2, a)] = "done"
    /\ processed_messages = <<>>

\* C26: a step of process_batch_parallel changes at most fraud_analysis,
\* fraud_status, fraud_score and fraud_reasons of a message, every other
\* field and key staying as it was, and a step of the correction loop
\* changes no fraud field and adds no fraud key.
C26_StageFrame ==
    [][\A m \in DOMAIN messages :
          /\ (par_pc # "idle")
                => (/\ (\A f \in (DOMAIN messages[m]) \ (FraudFields \cup {"keys"}) :
                          messages'[m][f] = messages[m][f])
                    /\ (messages[m].keys \subseteq messages'[m].keys)
                    /\ ((messages'[m].keys \ messages[m].keys) \subseteq FraudFields))
          /\ (stage = "evaluator_optimizer" /\ pc # "returned")
                => (/\ (\A f \in FraudFields : messages'[m][f] = messages[m][f])
                    /\ (messages'[m].keys \cap FraudFields
                          = messages[m].keys \cap FraudFields))]_vars

\* A joined INVALID message with its errors and a FRAUDULENT verdict.
C26_Witness ==
    \E m \in Joined :
       /\ messages[m].validation_status = "INVALID"
       /\ messages[m].validation_errors = ErrorsA
       /\ messages[m].fraud_status = "FRAUDULENT"
       /\ Len(messages[m].fraud_analysis) = NumAgents

----------------------------------------------------------------------------
(* EvaluatorOptimizerPattern._validate_bic, called on its own.             *)

MaxBicLen == 12

LowerLetters == DOMAIN LowerToUpper

\* str.isalpha() and str.isalnum(): false on the empty string.
isalpha(s) ==
    s # <<>> /\ \A k \in DOMAIN s : s[k] \in Letters \cup LowerLetters

isalnum(s) ==
    s # <<>> /\ \A k \in DOMAIN s : s[k] \in Letters \cup LowerLetters \cup Digits

\* _validate_bic without the test of the branch code.
validate_bic_branch_unchecked(b) ==
    IF b = <<>> THEN FALSE
    ELSE IF Len(b) \notin {8, 11} THEN FALSE
    ELSE IF ~isalpha(slice(b, 0, 4)) THEN FALSE
    ELSE IF ~isalpha(slice(b, 4, 6)) THEN FALSE
    ELSE IF ~isalnum(slice(b, 6, 8)) THEN FALSE
    ELSE TRUE

validate_bic(b) ==
    IF b = <<>> THEN FALSE
    ELSE IF Len(b) \notin {8, 11} THEN FALSE
    ELSE IF ~isalpha(slice(b, 0, 4)) THEN FALSE
    ELSE IF ~isalpha(slice(b, 4, 6)) THEN FALSE
    ELSE IF ~isalnum(slice(b, 6, 8)) THEN FALSE
    ELSE IF Len(b) = 11 /\ ~isalnum(slice(b, 8, 11)) THEN FALSE
    ELSE TRUE

\* The part of a BIC a position belongs to: bank, country, location, branch,
\* and what follows.
BicPart(k) ==
    IF k <= 4 THEN 1 ELSE IF k <= 6 THEN 2 ELSE IF k <= 8 THEN 3
    ELSE IF k <= 11 THEN 4 ELSE 5

BicChars == {"A", "1", "-"}

OddChars == {"A", "c", "1", "-", " "}

\* The strings tried: every length up to MaxBicLen, each part filled with
\* one character, and at most one position with another character.
InitBic ==
    /\ LoopIdle
    /\ AggIdle
    /\ ParIdle
    /\ \E n \in 0..MaxBicLen :
          \E fill \in [1..5 -> BicChars] :
             \E odd \in 0..n :
                \E c \in OddChars :
                   bic = [k \in 1..n |-> IF k = odd THEN c ELSE fill[BicPart(k)]]
    /\ bic_valid = FALSE
    /\ bic_pc = "call"
    /\ an_message = <<>>
    /\ an_agent = 0
    /\ an_outcome = <<>>
    /\ an_pc = "idle"
    /\ ChainIdle
    /\ OrchIdle

ValidateBic ==
    /\ bic_pc = "call"
    /\ bic_valid' = validate_bic(bic)
    /\ bic_pc' = "done"
    /\ UNCHANGED <<bic, an_message, an_agent, an_outcome, an_pc, chain_vars,
                   orch_vars, loop_vars, agg_vars, par_vars>>

NextBic == ValidateBic

SpecBic == InitBic /\ [][NextBic]_vars

IsAlphabetic(c) == c \in Letters \cup LowerLetters

IsAlphanumeric(c) == IsAlphabetic(c) \/ c \in Digits

\* C13: _validate_bic returns true exactly for the strings of length 8 or
\* 11 whose characters 0-3 and 4-5 are alphabetic, 6-7 alphanumeric and,
\* at length 11, 8-10 alphanumeric; for every other string it returns
\* false.
C13_ValidateBic ==
    bic_pc = "done"
    => (bic_valid <=>
          /\ Len(bic) \in {8, 11}
          /\ \A k \in 1..6 : IsAlphabetic(bic[k])
          /\ \A k \in 7..8 : IsAlphanumeric(bic[k])
          /\ Len(bic) = 11 => \A k \in 9..11 : IsAlphanumeric(bic[k]))

\* An accepted BIC of length 11 with digits in location and branch code.
C13_Witness ==
    /\ bic_pc = "done"
    /\ bic_valid
    /\ Len(bic) = 11
    /\ bic[7] = "1"
    /\ bic[9] = "1"
    /\ bic[5] = "c"

----------------------------------------------------------------------------
(* SWIFT_STANDARDS and the messages the correction loop marks VALID.       *)

\* SWIFT_STANDARDS["valid_currencies"]
valid_currencies ==
    {USD, EUR, <<"G", "B", "P">>, <<"J", "P", "Y">>, <<"C", "H", "F">>}

\* C29: a message the correction loop marked VALID meets the rules of
\* SWIFT_STANDARDS on the fields of the message: amount, sender_bic and
\* receiver_bic are present, the amount is a number followed by a currency
\* of the allow-list, and both BICs are accepted by _validate_bic.
C29_ValidMeetsStandards ==
    \A k \in DOMAIN messages :
       (/\ stage = "evaluator_optimizer"
        /\ "validation_status" \in messages[k].keys
        /\ messages[k].validation_status = "VALID")
       => /\ {"amount", "sender_bic", "receiver_bic"} \subseteq messages[k].keys
          /\ messages[k].amount_is_str
          /\ LET parts == split(messages[k].amount)
             IN  /\ Len(parts) = 2
                 /\ IsNumeric(parts[1])
                 /\ parts[2] \in valid_currencies
          /\ validate_bic(messages[k].sender_bic)
          /\ validate_bic(messages[k].receiver_bic)

----------------------------------------------------------------------------
(* The scoring agents, each called on its own on one message.              *)

Str(text) == [value |-> text, is_str |-> TRUE]

\* The amounts tried: strings, and None or a number where a string is
\* expected.
AmountValues ==
    {Str(A250EUR), Str(A15000USD), Str(A15000),
     Str(<<"1", "0", "0", "0", "0", ".", "5", "0", " ", "U", "S", "D">>),
     Str(<<"1", "0", "0", "0", "0", "0", ".", "0", "0">>),
     Str(<<"1", "5", "0", "0", "0", "0", ".", "5", "0", " ", "E", "U", "R">>),
     Str(<<"0", ".", "0", "0">>),
     Str(<<"1", ".", "5", ".", "0">>),
     Str(<<"U", "S", "D">>),
     Str(<<>>),
     [value |-> NoneValue, is_str |-> FALSE],
     [value |-> A15000, is_str |-> FALSE]}

testir33 == <<"t", "e", "s", "t", "i", "r", "3", "3">>

FAKESY00999 == <<"F", "A", "K", "E", "S", "Y", "0", "0", "9", "9", "9">>

BicValues ==
    {CHASUS33XXX, DEUTDEFFXXX, TESTIR33, testir33, FAKESY00999,
     <<"D", "E", "M", "O">>, <<>>, NoneValue}

RemittanceValues ==
    {<<>>, NoneValue, Urgent,
     <<"t", "o">> \o <<" ">> \o <<"S", "E", "C", "R", "E", "T">> \o <<",">>
        \o <<" ">> \o Urgent \o <<",">> \o <<" ">>
        \o <<"c", "o", "n", "f", "i", "d", "e", "n", "t", "i", "a", "l">>}

\* A message with the fields of keys present.
AnalyzedMessage(keys, amt, sender, receiver, remittance) ==
    [Message("M1", amt.value, sender, receiver, remittance)
        EXCEPT !.keys = {"message_id"} \cup keys,
               !.amount_is_str = amt.is_str]

AnalyzedFields == {"amount", "sender_bic", "receiver_bic", "remittance_info"}

\* Every field is either present with one of the values tried, or missing.
InitAgents ==
    /\ LoopIdle
    /\ AggIdle
    /\ ParIdle
    /\ bic = <<>>
    /\ bic_valid = FALSE
    /\ bic_pc = "idle"
    /\ \E amt \in AmountValues, sender \in BicValues, receiver \in BicValues,
          remittance \in RemittanceValues :
          \/ an_message = AnalyzedMessage(AnalyzedFields, amt, sender,
                                          receiver, remittance)
          \/ \E missing \in AnalyzedFields :
                /\ amt = Str(A15000USD) \/ missing = "amount"
                /\ an_message = AnalyzedMessage(AnalyzedFields \ {missing},
                                                amt, sender, receiver,
                                                remittance)
    /\ an_agent = 0
    /\ an_outcome = <<>>
    /\ an_pc = "call"
    /\ ChainIdle
    /\ OrchIdle

\* result = agent.analyze(message), called directly: the agents only read
\* the message (message.get).
Analyze(agent) ==
    /\ an_pc = "call"
    /\ an_agent' = agent
    /\ an_outcome' = analyze(agent, an_message)
    /\ an_pc' = "analyzed"
    /\ UNCHANGED <<an_message, bic, bic_valid, bic_pc, chain_vars, orch_vars,
                   loop_vars, agg_vars, par_vars>>

\* self._process_message(message, agent)
ProcessMessage(agent) ==
    /\ an_pc = "call"
    /\ an_agent' = agent
    /\ an_outcome' = [raised |-> FALSE,
                      result |-> process_message(an_message, agent)]
    /\ an_pc' = "processed"
    /\ UNCHANGED <<an_message, bic, bic_valid, bic_pc, chain_vars, orch_vars,
                   loop_vars, agg_vars, par_vars>>

\* What process_batch_parallel does for one message when every wait ends
\* in time: the results of _process_message for the agents of
\* list_of_agents, in that order, and their aggregate.
ScoreAndAggregate ==
    /\ an_pc = "call"
    /\ fraud_results' = [a \in 1..NumAgents |-> process_message(an_message, a)]
    /\ aggregated' = aggregate_results(fraud_results')
    /\ an_pc' = "scored"
    /\ UNCHANGED <<an_message, an_agent, an_outcome, agg_pc, bic, bic_valid,
                   bic_pc, chain_vars, orch_vars, loop_vars, par_vars>>

NextAgents ==
    \/ \E agent \in 1..NumAgents : Analyze(agent)
    \/ \E agent \in 1..NumAgents : ProcessMessage(agent)
    \/ ScoreAndAggregate

SpecAgents == InitAgents /\ [][NextAgents]_vars

\* C35: when the three configured agents have reported for a message, the
\* verdict is fraudulent exactly when their risk scores sum to 1.5 or more,
\* and then at least two of them reported a score above 0.
C35_NoSingleAgentVerdict ==
    an_pc = "scored"
    => LET sum == SumScores(fraud_results, Len(fraud_results))
           scoring == {k \in DOMAIN fraud_results :
                         fraud_results[k].risk_score > 0}
       IN  /\ Len(fraud_results) = 3
           /\ \A k \in DOMAIN fraud_results :
                 fraud_results[k].agent = AgentNames[k]
           /\ aggregated.is_fraudulent <=> sum >= 1500
           /\ aggregated.is_fraudulent => Cardinality(scoring) >= 2

\* The pattern agent alone reports its highest score, 1.0, the two others
\* 0, and the verdict is not fraudulent.
C35_Witness ==
    /\ an_pc = "scored"
    /\ fraud_results[1].risk_score = 0
    /\ fraud_results[2].risk_score = 1000
    /\ fraud_results[3].risk_score = 0
    /\ "error" \notin fraud_results[1].keys
    /\ "error" \notin fraud_results[3].keys
    /\ ~aggregated.is_fraudulent
    /\ aggregated.confidence = 3333

\* C15: a call of analyze returns a score and does not raise, whatever is
\* missing, None or not a string in the message.
C15_AnalyzeNeverRaises ==
    an_pc = "analyzed" => ~an_outcome.raised

\* C16: every score an agent returns, and the error record _process_message
\* returns for an agent that raised, has a risk_score between 0 and 1.
C16_ScoreInUnitInterval ==
    (an_pc = "processed" \/ (an_pc = "analyzed" /\ ~an_outcome.raised))
    => (an_outcome.result.risk_score >= 0
        /\ an_outcome.result.risk_score <= 1000)

\* The pattern agent on equal BICs holding TEST and an urgent remittance:
\* the weights fired sum to 1.1 and the score returned is 1.
C16_Witness ==
    /\ an_pc = "analyzed"
    /\ an_agent = 2
    /\ ~an_outcome.raised
    /\ fired_weight(pattern_rules(an_message.sender_bic,
                                  an_message.receiver_bic,
                                  lower(an_message.remittance_info))) = 1100
    /\ an_outcome.result.risk_score = 1000

\* The field of the message given to the agent, or the default of get.
Given(key) == IF key \in an_message.keys THEN an_message[key] ELSE <<>>

GivenRemittance ==
    IF Given("remittance_info") = NoneValue THEN <<>>
    ELSE Given("remittance_info")

\* The ten rules of the pattern agent by number: patterns 1-5, equal BICs 6,
\* keywords 7-10.
PatternFired(k) ==
    IF k <= 5
    THEN \/ Contains(high_risk_patterns[k], upper(Given("sender_bic")))
         \/ Contains(high_risk_patterns[k], upper(Given("receiver_bic")))
    ELSE IF k = 6
    THEN Given("sender_bic") # <<>>
         /\ Given("sender_bic") = Given("receiver_bic")
    ELSE Contains(suspicious_keywords[k - 6], lower(GivenRemittance))

PatternWeight(k) == IF k <= 5 THEN 400 ELSE IF k = 6 THEN 500 ELSE 200

PatternReason(k) ==
    IF k <= 5
    THEN <<"Test/fake pattern detected in BIC: ">> \o high_risk_patterns[k]
    ELSE IF k = 6 THEN <<"Same sender and receiver BIC">>
    ELSE <<"Suspicious keyword in remittance: ">> \o suspicious_keywords[k - 6]

RECURSIVE SumOver(_, _)
SumOver(W(_), S) ==
    IF S = {} THEN 0
    ELSE LET k == CHOOSE x \in S : TRUE IN W(k) + SumOver(W, S \ {k})

\* C17: when the pattern agent returns, its risk_score is the smaller of 1
\* and the sum of 0.4 per pattern found in either BIC whatever the case,
\* 0.5 for equal non-empty BICs and 0.2 per keyword found in the remittance
\* whatever the case; its reasons are those of the rules that fired, in
\* rule order; equal non-empty BICs give at least 0.5 and the reason "Same
\* sender and receiver BIC".
C17_PatternScore ==
    (an_pc = "analyzed" /\ an_agent = 2 /\ ~an_outcome.raised)
    => LET fired == {k \in 1..10 : PatternFired(k)}
           total == SumOver(PatternWeight, fired)
           reasons == an_outcome.result.fraud_reasons
       IN  /\ an_outcome.result.risk_score
                = (IF total > 1000 THEN 1000 ELSE total)
           /\ Len(reasons) = Cardinality(fired)
           /\ \A k \in fired :
                 reasons[Cardinality({j \in fired : j <= k})] = PatternReason(k)
           /\ (Given("sender_bic") # <<>>
                 /\ Given("sender_bic") = Given("receiver_bic"))
              => /\ an_outcome.result.risk_score >= 500
                 /\ \E n \in DOMAIN reasons :
                       reasons[n] = <<"Same sender and receiver BIC">>

\* sender_bic = receiver_bic = "CHASUS33XXX": risk 0.5 and the one reason.
C17_Witness ==
    /\ an_pc = "analyzed"
    /\ an_agent = 2
    /\ ~an_outcome.raised
    /\ Given("sender_bic") = CHASUS33XXX
    /\ Given("receiver_bic") = CHASUS33XXX
    /\ an_outcome.result.risk_score = 500
    /\ an_outcome.result.fraud_reasons = <<<<"Same sender and receiver BIC">>>>

\* Characters 4-5 of a BIC; none when the value is no string.
CountryCode(b) == IF b = NoneValue THEN <<>> ELSE slice(b, 4, 6)

\* C18: the geographic agent adds 0.4 for the sender and 0.4 for the
\* receiver exactly when characters 4-5 of that side's BIC are IR, KP, SY
\* or AF, with a reason naming the code; a side that yields no code adds
\* nothing; a sender code IR gives at least 0.4 and a reason with IR.
C18_GeographicScore ==
    (an_pc = "analyzed" /\ an_agent = 3)
    => LET sender_country == CountryCode(Given("sender_bic"))
           receiver_country == CountryCode(Given("receiver_bic"))
           reasons == an_outcome.result.fraud_reasons
       IN  /\ ~an_outcome.raised
           /\ an_outcome.result.risk_score
                = (IF sender_country \in HIGH_RISK_COUNTRIES THEN 400 ELSE 0)
                  + (IF receiver_country \in HIGH_RISK_COUNTRIES THEN 400 ELSE 0)
           /\ sender_country = <<"I", "R">>
              => /\ an_outcome.result.risk_score >= 400
                 /\ \E n \in DOMAIN reasons : Contains(<<"I", "R">>, reasons[n])

\* The digits and dots of the amount given; "0" when there is no amount.
GivenAmountText ==
    IF "amount" \in an_message.keys
    THEN SelectSeq(an_message.amount, LAMBDA c : c \in Digits \cup {"."})
    ELSE <<"0">>

\* The amount can be parsed: it is a string, and its digits and dots are a
\* decimal numeral.
GivenAmountParses ==
    /\ "amount" \in an_message.keys => an_message.amount_is_str
    /\ \E k \in 0..Len(GivenAmountText) :
          LET before == SubSeq(GivenAmountText, 1, k)
              after == SubSeq(GivenAmountText, k + 2, Len(GivenAmountText))
          IN  /\ \A j \in DOMAIN before : before[j] \in Digits
              /\ \A j \in DOMAIN after : after[j] \in Digits
              /\ k < Len(GivenAmountText) => GivenAmountText[k + 1] = "."
              /\ Len(before) + Len(after) > 0

\* The amount in thousandths, for an amount of at most three decimals.
GivenAmountThousandths ==
    LET before == UpToDot(GivenAmountText)
        after == SubSeq(GivenAmountText, Len(before) + 2, Len(GivenAmountText))
        padded == SubSeq(after \o <<"0", "0", "0">>, 1, 3)
    IN  DecimalValue(before) * 1000 + DecimalValue(padded)

\* C19: the amount agent parses the digits and dots of the amount and
\* returns 0.3 if amount > 10000, plus 0.2 if the amount is a positive
\* multiple of 1000, plus 0.1 if amount > 100000 and is not integral, with
\* one reason per rule that fired; an amount that cannot be parsed gives
\* risk 0, no reason, and no exception.
C19_AmountScore ==
    (an_pc = "analyzed" /\ an_agent = 1)
    => LET amount == GivenAmountThousandths
           high == amount > 10000 * 1000
           round_amount == amount % (1000 * 1000) = 0 /\ amount > 0
           precise == amount > 100000 * 1000 /\ amount % 1000 # 0
           count(b) == IF b THEN 1 ELSE 0
       IN  /\ ~an_outcome.raised
           /\ IF GivenAmountParses
              THEN /\ an_outcome.result.risk_score
                        = 300 * count(high) + 200 * count(round_amount)
                          + 100 * count(precise)
                   /\ Len(an_outcome.result.fraud_reasons)
                        = count(high) + count(round_amount) + count(precise)
              ELSE /\ an_outcome.result.risk_score = 0
                   /\ an_outcome.result.fraud_reasons = <<>>

\* "150000.50 EUR": the high-amount and the precision rule fire, 0.4.
C19_Witness ==
    /\ an_pc = "analyzed"
    /\ an_agent = 1
    /\ GivenAmountParses
    /\ GivenAmountThousandths = 150000500
    /\ an_outcome.result.risk_score = 400
    /\ Len(an_outcome.result.fraud_reasons) = 2

\* C38: the amount agent never returns a score above 0.5: the round-amount
\* rule and the unusual-precision rule never fire on the same amount.
C38_AmountScoreAtMostHalf ==
    (an_pc = "analyzed" /\ an_agent = 1)
    => /\ an_outcome.result.risk_score <= 500
       /\ ~(\E j, k \in DOMAIN an_outcome.result.fraud_reasons :
               /\ SubSeq(an_outcome.result.fraud_reasons[j], 1, 1)
                    = <<"Suspiciously round amount: ">>
               /\ an_outcome.result.fraud_reasons[k]
                    = <<"Large amount with unusual decimal precision">>)

\* "100000.00": the high-amount and the round-amount rule fire, 0.5, the
\* highest score of the agent.
C38_Witness ==
    /\ an_pc = "analyzed"
    /\ an_agent = 1
    /\ GivenAmountParses
    /\ GivenAmountThousandths = 100000000
    /\ an_outcome.result.risk_score = 500

----------------------------------------------------------------------------
(* PromptChainingPattern.process_chain: five model calls one after the     *)
(* other, then the final decisions written on the messages.  A model call  *)
(* returns a JSON object or raises; _call_llm turns a raise into {}.        *)

ChainMsgs == 2

stage_names == <<"initial_screening", "technical_analysis", "risk_assessment",
                 "compliance_review", "final_review">>

\* One entry of final_decisions: the keys it has and their values.
Decision(ks, id, dec, conf, just) ==
    [keys |-> ks, message_id |-> id, decision |-> dec, confidence |-> conf,
     justification |-> just]

\* The lists the last stage may return as final_decisions: none, one
\* decision, one per message, two for one message, one without a decision,
\* one without a message_id, one for a message that is not in the batch.
FinalDecisionLists ==
    LET all == {"message_id", "decision", "confidence", "justification"}
        m1 == Decision(all, "M1", "BLOCK", 90, "j1")
        m2 == Decision({"message_id", "decision"}, "M2", "APPROVE", 0, "")
        m1_again == Decision(all, "M1", "APPROVE", 10, "j2")
        no_decision == Decision({"message_id", "confidence"}, "M1", "", 40, "")
        no_id == Decision({"decision"}, "", "BLOCK", 0, "")
        m9 == Decision(all, "M9", "BLOCK", 50, "j9")
    IN  {<<>>, <<m1>>, <<m1, m2>>, <<m1, m1_again>>,
         <<m2, no_decision>>, <<no_id>>, <<m9, m2>>}

\* A JSON object a stage returned: its keys, a mark of the stage it came
\* from, and its final_decisions.
ChainResult(ks, tag, ds) == [keys |-> ks, tag |-> tag, final_decisions |-> ds]

\* {}
EmptyResult == ChainResult({}, "", <<>>)

LlmResponse(ok, value) == [ok |-> ok, value |-> value]

\* What the model call of stage k may do: raise, or return an object.
Responses(k) ==
    {LlmResponse(FALSE, EmptyResult),
     LlmResponse(TRUE, ChainResult({"analysis"}, stage_names[k], <<>>))}
    \cup (IF k < 5 THEN {}
          ELSE {LlmResponse(TRUE, ChainResult({"final_decisions"},
                                              stage_names[k], ds)) :
                   ds \in FinalDecisionLists})

\* _call_llm: the parsed object, or {} when anything raised.
call_llm(response) == IF response.ok THEN response.value ELSE EmptyResult

\* _make_json_safe on the list of messages: a new list of new dicts with
\* the same keys; a value with isoformat() becomes a string, which no field
\* of these messages is.
make_json_safe(list) ==
    [k \in DOMAIN list |-> [f \in DOMAIN list[k] |-> list[k][f]]]

\* chain_results[key] = result
chain_put(results, key, result) ==
    Append(results, [key |-> key, result |-> result])

\* A chain in which every later stage is given the initial screening only.
prompt_inputs_initial_only(k, results) ==
    IF k = 1 THEN <<>> ELSE <<results[1]>>

\* The earlier results that go into the prompt of stage k: none for the
\* first, initial_results for the second, chain_results for the others.
prompt_inputs(k, results) ==
    IF k = 1 THEN <<>>
    ELSE IF k = 2 THEN <<results[1]>>
    ELSE results

\* message['fraud_decision'] = decision['decision'], and the two get()
with_decision(message, decision) ==
    [message EXCEPT
        !.keys = @ \cup {"fraud_decision", "fraud_confidence",
                         "fraud_justification"},
        !.fraud_decision = decision.decision,
        !.fraud_confidence = IF "confidence" \in decision.keys
                             THEN decision.confidence ELSE 0,
        !.fraud_justification = IF "justification" \in decision.keys
                                THEN decision.justification ELSE ""]

\* decision_map[msg_id]: the last decision of the list with that id.
decision_map(ds, msg_id) ==
    ds[CHOOSE j \in DOMAIN ds :
          /\ ds[j].message_id = msg_id
          /\ \A j2 \in DOMAIN ds : j2 > j => ds[j2].message_id # msg_id]

\* Lines 347-356 on the list list: a decision without message_id raises
\* KeyError while decision_map is built; a decision without 'decision'
\* raises it at the message it is for, the messages before it are written.
update_with_decisions(list, final_results) ==
    IF "final_decisions" \notin final_results.keys
    THEN [raised |-> FALSE, messages |-> list]
    ELSE LET ds == final_results.final_decisions
         IN  IF \E j \in DOMAIN ds : "message_id" \notin ds[j].keys
             THEN [raised |-> TRUE, messages |-> list]
             ELSE LET decided(k) ==
                          \E j \in DOMAIN ds :
                             ds[j].message_id = list[k].message_id
                      bad == {k \in DOMAIN list :
                                /\ decided(k)
                                /\ "decision" \notin
                                     decision_map(ds, list[k].message_id).keys}
                      stop == IF bad = {} THEN Len(list) + 1
                              ELSE CHOOSE k \in bad : \A k2 \in bad : k <= k2
                  IN  [raised |-> bad # {},
                       messages |->
                          [k \in DOMAIN list |->
                              IF k < stop /\ decided(k)
                              THEN with_decision(list[k],
                                      decision_map(ds, list[k].message_id))
                              ELSE list[k]]]

\* The caller hands process_chain the batch the fan-out returned.
InitChain ==
    /\ LoopStopped
    /\ AggIdle
    /\ ParIdle
    /\ CallsIdle
    /\ OrchIdle
    /\ \E n \in 1..ChainMsgs :
          \E choice \in [1..n -> 1..3] :
             messages = [k \in 1..n |-> Templates(MessageIds[k])[choice[k]]]
    /\ chain_pc = "stage"
    /\ chain_stage = 1
    /\ chain_results = <<>>
    /\ chain_safe = <<>>
    /\ chain_log = <<>>

\* One stage: its prompt, its model call, its entry in chain_results.  The
\* first stage begins with messages = self._make_json_safe(messages).
CallStage(response) ==
    /\ chain_pc = "stage"
    /\ chain_safe' = IF chain_stage = 1 THEN make_json_safe(messages)
                     ELSE chain_safe
    /\ chain_log' = Append(chain_log,
                           [stage |-> stage_names[chain_stage],
                            given |-> prompt_inputs(chain_stage, chain_results),
                            failed |-> ~response.ok])
    /\ chain_results' = chain_put(chain_results, stage_names[chain_stage],
                                  call_llm(response))
    /\ IF chain_stage < 5
       THEN chain_stage' = chain_stage + 1 /\ UNCHANGED chain_pc
       ELSE chain_pc' = "update" /\ UNCHANGED chain_stage
    /\ UNCHANGED <<bic, bic_valid, bic_pc, an_message, an_agent, an_outcome,
                   an_pc, orch_vars, loop_vars, agg_vars, par_vars>>

\* The final decisions are written on the messages of the local list, and
\* chain_results is returned.
UpdateMessages ==
    /\ chain_pc = "update"
    /\ LET outcome == update_with_decisions(chain_safe, chain_results[5].result)
       IN  /\ chain_safe' = outcome.messages
           /\ chain_pc' = IF outcome.raised THEN "raised" ELSE "returned"
    /\ UNCHANGED <<chain_stage, chain_results, chain_log, bic, bic_valid,
                   bic_pc, an_message, an_agent, an_outcome, an_pc, orch_vars,
                   loop_vars, agg_vars, par_vars>>

NextChain ==
    \/ \E k \in 1..5 :
          \E response \in Responses(k) : chain_stage = k /\ CallStage(response)
    \/ UpdateMessages

SpecChain == InitChain /\ [][NextChain]_vars

\* The decisions of the final review, none when it has no final_decisions.
FinalDecisions ==
    IF Len(chain_results) = 5
       /\ "final_decisions" \in chain_results[5].result.keys
    THEN chain_results[5].result.final_decisions
    ELSE <<>>

DecisionFields == {"fraud_decision", "fraud_confidence", "fraud_justification"}

\* C31: when process_chain has returned, every message of the caller's list
\* whose message_id is in final_decisions carries fraud_decision,
\* fraud_confidence and fraud_justification of a decision with its id, and
\* a message without a decision has none of the three keys.
C31_DecisionsOnCallerMessages ==
    chain_pc = "returned"
    => \A k \in DOMAIN messages :
          LET mine == {j \in DOMAIN FinalDecisions :
                          /\ "message_id" \in FinalDecisions[j].keys
                          /\ FinalDecisions[j].message_id
                               = messages[k].message_id}
          IN  IF mine # {}
              THEN /\ DecisionFields \subseteq messages[k].keys
                   /\ \E j \in mine :
                         messages[k].fraud_decision = FinalDecisions[j].decision
              ELSE DecisionFields \cap messages[k].keys = {}

\* C37: the model calls made so far are those of the first stages, in the
\* order initial_screening, technical_analysis, risk_assessment,
\* compliance_review, final_review, one call each; the prompt of each stage
\* was given the results of all stages before it; a call that failed left
\* {} as the result of its stage and the next stage ran; and when the
\* stages are through, chain_results has the five keys.
C37_FiveStagesInOrder ==
    /\ Len(chain_log) <= 5
    /\ Len(chain_results) = Len(chain_log)
    /\ chain_pc = "stage" => Len(chain_log) = chain_stage - 1
    /\ chain_pc \in {"update", "returned", "raised"} => Len(chain_log) = 5
    /\ \A j \in DOMAIN chain_log :
          /\ chain_log[j].stage = stage_names[j]
          /\ chain_results[j].key = stage_names[j]
          /\ chain_log[j].given = SubSeq(chain_results, 1, j - 1)
          /\ chain_log[j].failed => chain_results[j].result = EmptyResult
          /\ ~chain_log[j].failed => chain_results[j].result.tag = stage_names[j]

\* process_chain has returned after failed calls in the second and the
\* fourth stage; the third and the fifth stage have their results.
C37_Witness ==
    /\ chain_pc = "returned"
    /\ chain_log[2].failed
    /\ chain_log[4].failed
    /\ chain_results[3].result.tag = "risk_assessment"
    /\ chain_results[5].result.tag = "final_review"
    /\ Len(chain_log[5].given) = 4

----------------------------------------------------------------------------
(* OrchestratorWorkerPattern.process_with_orchestrator: one model call for *)
(* the task list, then one model call per task.                             *)

OrchMsgs == 2

MaxTasks == 3

\* A task of the orchestrator's list: the keys it has, its id and its type.
Task(ks, id, type) == [keys |-> ks, task_id |-> id, type |-> type]

TaskShapes ==
    {Task({"task_id", "type", "description", "priority", "data"}, "T1",
          "compliance_check"),
     Task({"task_id", "type"}, "T2", "fraud_analysis"),
     Task({"type", "description"}, "", "summary_report")}

\* The JSON object of the orchestrator: its keys, analysis, task_count, tasks.
OrchResult(ks, analysis, count, tasks) ==
    [keys |-> ks, analysis |-> analysis, task_count |-> count, tasks |-> tasks]

\* What the orchestrator's model call may do: raise, return an object
\* without tasks, or return a list of up to MaxTasks tasks.
OrchResponses ==
    {LlmResponse(FALSE, OrchResult({}, "", 0, <<>>)),
     LlmResponse(TRUE, OrchResult({"analysis"}, "nothing to do", 0, <<>>))}
    \cup {LlmResponse(TRUE, OrchResult({"analysis", "task_count", "tasks"},
                                       "tasks", Len(ts), ts)) :
             ts \in UNION {[1..n -> TaskShapes] : n \in 0..MaxTasks}}

\* Orchestrator.analyze_and_create_tasks: the parsed object, or the
\* fallback with no task when anything raised.
analyze_and_create_tasks(response) ==
    IF response.ok THEN response.value
    ELSE OrchResult({"analysis", "task_count", "tasks"},
                    "Failed to create tasks", 0, <<>>)

\* orchestrator_response.get('tasks', [])
tasks_of(orchestrator_response) ==
    IF "tasks" \in orchestrator_response.keys
    THEN orchestrator_response.tasks ELSE <<>>

\* task.get("task_id")
task_id_of(work) == IF "task_id" \in work.keys THEN work.task_id ELSE "None"

\* A worker that reports every task as completed.
execute_task_always_completed(work, ok) ==
    [keys |-> {"task_id", "status", "results"},
     task_id |-> task_id_of(work), status |-> "completed"]

\* GenericAgent.execute_task: a completed record with the parsed object, or
\* a failed record with the error when the model call raised.
execute_task(work, ok) ==
    IF ok
    THEN [keys |-> {"task_id", "status", "results"},
          task_id |-> task_id_of(work), status |-> "completed"]
    ELSE [keys |-> {"task_id", "status", "error"},
          task_id |-> task_id_of(work), status |-> "failed"]

InitOrch ==
    /\ LoopStopped
    /\ AggIdle
    /\ ParIdle
    /\ CallsIdle
    /\ ChainIdle
    /\ \E n \in 0..OrchMsgs :
          messages = [k \in 1..n |-> Templates(MessageIds[k])[1]]
    /\ orch_pc = "analyze"
    /\ orch_response = <<>>
    /\ orch_tasks = <<>>
    /\ orch_k = 1
    /\ orch_results = <<>>
    /\ orch_log = <<>>

\* orchestrator_response = orchestrator.analyze_and_create_tasks(messages)
\* and tasks = orchestrator_response.get('tasks', []).  With no task the
\* for loop has no pass and the method returns.
AnalyzeAndCreateTasks(response) ==
    /\ orch_pc = "analyze"
    /\ orch_response' = analyze_and_create_tasks(response)
    /\ orch_tasks' = tasks_of(orch_response')
    /\ orch_pc' = IF orch_tasks' = <<>> THEN "returned" ELSE "execute"
    /\ UNCHANGED <<orch_k, orch_results, orch_log, bic, bic_valid, bic_pc,
                   an_message, an_agent, an_outcome, an_pc, chain_vars,
                   loop_vars, agg_vars, par_vars>>

\* One pass of the for loop: result = agent.execute_task(task) and
\* results.append(result).  After the last task the method returns.
ExecuteTask(ok) ==
    /\ orch_pc = "execute"
    /\ orch_results' = Append(orch_results, execute_task(orch_tasks[orch_k], ok))
    /\ orch_log' = Append(orch_log, ~ok)
    /\ orch_k' = orch_k + 1
    /\ orch_pc' = IF orch_k = Len(orch_tasks) THEN "returned" ELSE "execute"
    /\ UNCHANGED <<orch_response, orch_tasks, bic, bic_valid, bic_pc,
                   an_message, an_agent, an_outcome, an_pc, chain_vars,
                   loop_vars, agg_vars, par_vars>>

NextOrch ==
    \/ \E response \in OrchResponses : AnalyzeAndCreateTasks(response)
    \/ \E ok \in BOOLEAN : ExecuteTask(ok)

SpecOrch == InitOrch /\ [][NextOrch]_vars

\* C36: the tasks executed are those of the orchestrator's response, in
\* their order; every task executed so far, and every task when the method
\* has returned, has one result record at its place, with its task_id and
\* with status failed if its model call failed and completed otherwise, so
\* a failed task is followed by the execution of the next; and after an
\* orchestrator failure the method has returned with no task and no result.
C36_OneRecordPerTask ==
    /\ orch_pc \in {"idle", "analyze", "execute", "returned"}
    /\ orch_pc \in {"execute", "returned"}
          => /\ "tasks" \in orch_response.keys => orch_tasks = orch_response.tasks
             /\ "tasks" \notin orch_response.keys => orch_tasks = <<>>
             /\ Len(orch_results)
                  = IF orch_pc = "returned" THEN Len(orch_tasks) ELSE orch_k - 1
             /\ Len(orch_log) = Len(orch_results)
             /\ \A j \in DOMAIN orch_results :
                   /\ orch_results[j].status \in {"completed", "failed"}
                   /\ orch_results[j].status = "failed" <=> orch_log[j]
                   /\ "task_id" \in orch_tasks[j].keys
                        => orch_results[j].task_id = orch_tasks[j].task_id
             /\ orch_response.analysis = "Failed to create tasks"
                  => /\ orch_pc = "returned"
                     /\ orch_tasks = <<>>
                     /\ orch_results = <<>>

\* Three tasks, the second of which failed: the third was executed and the
\* method returned three records.
C36_Witness ==
    /\ orch_pc = "returned"
    /\ Len(orch_tasks) = 3
    /\ orch_results[1].status = "completed"
    /\ orch_results[2].status = "failed"
    /\ orch_results[3].status = "completed"
    /\ orch_results[3].task_id = "T2"

====
